---------------------------- MODULE Spec2Model ----------------------------
(***************************************************************************)
(* A model of mridang/actions-commitlint: the installation strategies      *)
(* (DeclarativeStrategy, ImperativeStrategy, declarativeLoader), the       *)
(* Linter, the Results aggregate and runLintingProcess.                    *)
(*                                                                         *)
(* The repository holds several implementations of the same class side by  *)
(* side (two DeclarativeStrategy classes, four Linter classes).  Each is    *)
(* modelled, and the variable `strategy` / `linterImpl` says which one a    *)
(* behaviour runs.                                                          *)
(*                                                                         *)
(* Strings the code inspects character by character (package identifiers,  *)
(* versions) are sequences of one-character strings, so that trim(),       *)
(* startsWith(), lastIndexOf() and slice() are computed as the code does.  *)
(* Message texts are sequences of parts (TLA+ strings).                     *)
(***************************************************************************)
EXTENDS Integers, Sequences, FiniteSets, TLC

(***************************************************************************)
(* Bounds of the model.                                                    *)
(***************************************************************************)
\* the largest number of entries of `extends` and `plugins` taken together
MaxEntries == 2

(***************************************************************************)
(* JavaScript string primitives on character sequences.                    *)
(***************************************************************************)
RECURSIVE TrimStart(_)
TrimStart(s) ==
  IF s # <<>> /\ Head(s) = " " THEN TrimStart(Tail(s)) ELSE s

RECURSIVE TrimEnd(_)
TrimEnd(s) ==
  IF s # <<>> /\ s[Len(s)] = " " THEN TrimEnd(SubSeq(s, 1, Len(s) - 1)) ELSE s

\* String.prototype.trim
Trim(s) == TrimEnd(TrimStart(s))

\* String.prototype.startsWith, for a one-character prefix
StartsWith(s, c) == s # <<>> /\ Head(s) = c

\* String.prototype.lastIndexOf, for a one-character needle: 0-based, -1 if absent
LastIndexOf(s, c) ==
  LET hits == {i \in 1..Len(s) : s[i] = c}
  IN  IF hits = {} THEN -1
      ELSE (CHOOSE i \in hits : \A j \in hits : j <= i) - 1

\* String.prototype.slice(from, to) with 0-based, end-exclusive indices
Slice(s, from, to) == SubSeq(s, from + 1, to)

\* path.isAbsolute on POSIX
IsAbsolute(s) == StartsWith(s, "/")

(***************************************************************************)
(* Package identifiers that configurations of the model refer to.          *)
(***************************************************************************)
ScopedVersioned == <<"@", "s", "/", "n", "@", "2">>
Scoped          == <<"@", "s", "/", "n">>
Plain           == <<"p">>
Padded          == <<" ", "p">>
LocalPath       == <<".", "/", "l">>
AbsolutePath    == <<"/", "a">>
Blank           == <<" ">>
Wildcard        == <<"*">>
EmptyString     == <<>>

Identifiers ==
  {ScopedVersioned, Scoped, Plain, Padded, LocalPath, AbsolutePath, Blank}

(***************************************************************************)
(* RawDeclarativeConfig: `extends` is absent, a string or an array;        *)
(* `plugins` is absent or an array.  An array entry is a string, a         *)
(* [name, options] tuple, or something else (null, a number, a tuple whose  *)
(* first element is no string).                                            *)
(***************************************************************************)
Absent     == [t |-> "absent", v |-> <<>>]
Str(s)     == [t |-> "str", v |-> s]
Tuple(s)   == [t |-> "tuple", v |-> s]
Junk       == [t |-> "junk", v |-> <<>>]
Arr(es)    == [t |-> "arr", v |-> es]

Entries ==
  {Str(s) : s \in Identifiers} \cup {Tuple(Plain), Tuple(Blank), Junk}

ArraysUpTo(n) == UNION {[1..k -> Entries] : k \in 0..n}

\* the number of entries a field value holds
Size(f) == IF f.t = "arr" THEN Len(f.v) ELSE IF f.t = "str" THEN 1 ELSE 0

RawDeclarativeConfigs ==
  {c \in [extends : {Absent} \cup {Str(s) : s \in Identifiers}
                      \cup {Arr(a) : a \in ArraysUpTo(MaxEntries)},
          plugins : {Absent} \cup {Arr(a) : a \in ArraysUpTo(MaxEntries)}] :
     Size(c.extends) + Size(c.plugins) <= MaxEntries}

\* a variant of Dedupe that keeps every occurrence
KeepDuplicates(xs) == xs

\* Array.from(new Set(xs)): duplicates removed, first occurrence kept
RECURSIVE Dedupe(_)
Dedupe(xs) ==
  IF xs = <<>> THEN <<>>
  ELSE LET init == Dedupe(SubSeq(xs, 1, Len(xs) - 1))
           last == xs[Len(xs)]
       IN  IF \E i \in 1..Len(init) : init[i] = last THEN init
           ELSE Append(init, last)

(***************************************************************************)
(* DeclarativeStrategy._extractDependenciesFromDeclarativeConfig, in the   *)
(* implementation that trims the names (unnamed/part_005).                 *)
(***************************************************************************)
ExtendsArray(config) ==
  IF config.extends.t = "arr" THEN config.extends.v
  ELSE IF config.extends.t = "str" /\ config.extends.v # EmptyString
       THEN <<config.extends>>
       ELSE <<>>

RECURSIVE ValidExtends(_)
ValidExtends(es) ==
  IF es = <<>> THEN <<>>
  ELSE (IF Head(es).t = "str" /\ Trim(Head(es).v) # EmptyString
        THEN <<Trim(Head(es).v)>> ELSE <<>>) \o ValidExtends(Tail(es))

PluginsArray(config) ==
  IF config.plugins.t = "arr" THEN config.plugins.v ELSE <<>>

RECURSIVE ValidPlugins(_)
ValidPlugins(ps) ==
  IF ps = <<>> THEN <<>>
  ELSE (IF Head(ps).t \in {"str", "tuple"} /\ Trim(Head(ps).v) # EmptyString
        THEN <<Trim(Head(ps).v)>> ELSE <<>>) \o ValidPlugins(Tail(ps))

ExtractTrimmed(config) ==
  Dedupe(ValidExtends(ExtendsArray(config)) \o ValidPlugins(PluginsArray(config)))

(***************************************************************************)
(* The same method in src/strategies/declarative.ts: an entry is kept when *)
(* its trimmed text is not empty, and is added untrimmed.                  *)
(***************************************************************************)
RECURSIVE AddedExtends(_)
AddedExtends(es) ==
  IF es = <<>> THEN <<>>
  ELSE (IF Head(es).t = "str" /\ Trim(Head(es).v) # EmptyString
        THEN <<Head(es).v>> ELSE <<>>) \o AddedExtends(Tail(es))

RECURSIVE AddedPlugins(_)
AddedPlugins(ps) ==
  IF ps = <<>> THEN <<>>
  ELSE (IF Head(ps).t \in {"str", "tuple"} /\ Trim(Head(ps).v) # EmptyString
        THEN <<Head(ps).v>> ELSE <<>>) \o AddedPlugins(Tail(ps))

ExtractUntrimmed(config) ==
  Dedupe(AddedExtends(ExtendsArray(config)) \o AddedPlugins(PluginsArray(config)))

\* the implementations of DeclarativeStrategy that the repository holds
DeclarativeImpls == {"DeclarativeStrategy.part_005", "DeclarativeStrategy.declarative_ts"}

ExtractDependencies(impl, config) ==
  IF impl = "DeclarativeStrategy.part_005" THEN ExtractTrimmed(config)
  ELSE ExtractUntrimmed(config)

(***************************************************************************)
(* Manifests.  A JavaScript object read from or written to package.json    *)
(* is a map `top` of its top-level fields other than the dependency maps,  *)
(* plus the `dependencies` map (hasDeps says whether the key is there with *)
(* a truthy value) and the `devDependencies` map.                          *)
(***************************************************************************)
NoMap == <<>>

DefaultPackageJsonData ==
  [top |-> [k \in {"name", "version", "description", "private"} |->
              CASE k = "name" -> "commitlint-action-dynamic-deps"
                [] k = "version" -> "1.0.0"
                [] k = "description" ->
                     "Dynamically managed dependencies for commitlint GitHub Action"
                [] k = "private" -> "true"],
   hasDeps |-> TRUE,
   dependencies |-> NoMap,
   devDependencies |-> NoMap]

\* { ...a, ...b } on maps
Spread(a, b) ==
  [k \in (DOMAIN a) \cup (DOMAIN b) |-> IF k \in DOMAIN b THEN b[k] ELSE a[k]]

\* packageJsonData = { ...packageJsonData, ...parsedExistingContent };
\* if (!packageJsonData.dependencies) packageJsonData.dependencies = {}
MergeExisting(defaults, parsed) ==
  [top |-> Spread(defaults.top, parsed.top),
   hasDeps |-> TRUE,
   dependencies |-> IF parsed.hasDeps THEN parsed.dependencies ELSE NoMap,
   devDependencies |-> parsed.devDependencies]

\* a string is truthy when it is not empty
Truthy(s) == s # EmptyString

\* packageJsonData.dependencies[dep] = packageJsonData.dependencies[dep] || '*'
SetDependency(deps, dep) ==
  Spread(deps, [k \in {dep} |->
                  IF dep \in DOMAIN deps /\ Truthy(deps[dep]) THEN deps[dep]
                  ELSE Wildcard])

\* a variant of AddDependency that does not skip local paths
AddDependencyAlways(deps, dep) == SetDependency(deps, dep)

\* the body of dependenciesToInstall.forEach
AddDependency(deps, dep) ==
  IF ~StartsWith(dep, ".") /\ ~IsAbsolute(dep) THEN SetDependency(deps, dep)
  ELSE deps

RECURSIVE AddDependencies(_, _)
AddDependencies(deps, names) ==
  IF names = <<>> THEN deps
  ELSE AddDependencies(AddDependency(deps, Head(names)), Tail(names))

(***************************************************************************)
(* declarativeLoader (src/loaders.ts): the names come from `plugins`, then *)
(* `extends`; an identifier that starts with '@' and holds a later '@' is  *)
(* split at the last '@' into name and version.                            *)
(***************************************************************************)
RECURSIVE LoaderNames(_)
LoaderNames(es) ==
  IF es = <<>> THEN <<>>
  ELSE (IF Head(es).t \in {"str", "tuple"} THEN <<Trim(Head(es).v)>> ELSE <<>>)
       \o LoaderNames(Tail(es))

LoaderField(f) ==
  IF f.t = "str" THEN <<Trim(f.v)>>
  ELSE IF f.t = "arr" THEN LoaderNames(f.v) ELSE <<>>

IsVersioned(entry) == LastIndexOf(entry, "@") > 0 /\ StartsWith(entry, "@")

SplitName(entry) ==
  IF IsVersioned(entry) THEN Slice(entry, 0, LastIndexOf(entry, "@")) ELSE entry

SplitVersion(entry) ==
  IF IsVersioned(entry) THEN Slice(entry, LastIndexOf(entry, "@") + 1, Len(entry))
  ELSE Wildcard

RECURSIVE LoaderReduce(_, _)
LoaderReduce(acc, entries) ==
  IF entries = <<>> THEN acc
  ELSE LET name == SplitName(Head(entries))
           next == IF name \in DOMAIN acc /\ Truthy(acc[name]) THEN acc
                   ELSE Spread(acc, [k \in {name} |-> SplitVersion(Head(entries))])
       IN  LoaderReduce(next, Tail(entries))

LoaderDependencies(config) ==
  LoaderReduce(NoMap, LoaderField(config.plugins) \o LoaderField(config.extends))

LoaderManifest(deps) ==
  [top |-> [k \in {"name"} |-> "temp"],
   hasDeps |-> FALSE,
   dependencies |-> NoMap,
   devDependencies |-> deps]

(***************************************************************************)
(* Files.  A configuration file has an extension and a content; the        *)
(* content is JSON text, YAML text that is no JSON, or text that is        *)
(* neither, and (when it parses) holds a RawDeclarativeConfig.             *)
(***************************************************************************)
workingDirectory == "/work"
packageJsonPath  == "/work/package.json"
configFilePath(file) == "/work/.commitlintrc" \o file.ext

JsonErrorMessage == "Unexpected token e in JSON at position 0"
YamlErrorMessage == "All mapping items must start at the same column"

NoConfig == [extends |-> Absent, plugins |-> Absent]

ConfigFiles ==
  {[ext |-> k[1], syntax |-> k[2], config |-> c] :
     k \in {<<".json", "json">>, <<".yaml", "yaml">>, <<"", "json">>, <<"", "yaml">>},
     c \in RawDeclarativeConfigs}
  \cup {[ext |-> k[1], syntax |-> k[2], config |-> NoConfig] :
          k \in {<<".json", "yaml">>, <<".json", "malformed">>,
                 <<".yaml", "malformed">>, <<"", "malformed">>, <<".txt", "json">>}}

\* JSON.parse and yaml's parse: [ok, value] or [ok = FALSE, message]
JSONparse(file) ==
  IF file.syntax = "json" THEN [ok |-> TRUE, config |-> file.config, message |-> <<>>]
  ELSE [ok |-> FALSE, config |-> NoConfig, message |-> <<JsonErrorMessage>>]

parseYaml(file) ==
  IF file.syntax \in {"json", "yaml"}
  THEN [ok |-> TRUE, config |-> file.config, message |-> <<>>]
  ELSE [ok |-> FALSE, config |-> NoConfig, message |-> <<YamlErrorMessage>>]

\* case '': of the implementation in unnamed/part_005 (JSON, then YAML)
ParseExtensionlessFallback(file) ==
  IF JSONparse(file).ok THEN JSONparse(file)
  ELSE IF parseYaml(file).ok THEN parseYaml(file)
  ELSE [ok |-> FALSE, config |-> NoConfig,
        message |-> <<"File '.commitlintrc': JSON parse failed (Error: ">>
                    \o JSONparse(file).message
                    \o <<"), YAML parse also failed (Error: ">>
                    \o parseYaml(file).message
                    \o <<"). Unsupported format or malformed.">>]

\* case '': of the implementation in src/strategies/declarative.ts (JSON only)
ParseExtensionlessJsonOnly(file) ==
  IF JSONparse(file).ok THEN JSONparse(file)
  ELSE [ok |-> FALSE, config |-> NoConfig,
        message |-> <<"Unsupported or malformed extensionless configuration file '.commitlintrc'. Attempted JSON parsing failed: ">>
                    \o JSONparse(file).message]

ParseExtensionless(impl, file) ==
  IF impl = "DeclarativeStrategy.part_005" THEN ParseExtensionlessFallback(file)
  ELSE ParseExtensionlessJsonOnly(file)

\* _parseDeclarativeConfigFile
ParseDeclarativeConfigFile(impl, file) ==
  CASE file.ext = ".json" -> JSONparse(file)
    [] file.ext \in {".yaml", ".yml"} -> parseYaml(file)
    [] file.ext = "" -> ParseExtensionless(impl, file)
    [] OTHER -> [ok |-> FALSE, config |-> NoConfig,
                 message |-> <<"Unsupported declarative config file format/extension: '",
                               file.ext, "' for '", configFilePath(file), "'.">>]

\* whether the warning of the JSON attempt on an extensionless file is emitted
WarnsJsonFailed(file) == file.ext = "" /\ ~JSONparse(file).ok

(***************************************************************************)
(* What package.json on disk can hold before a strategy runs.              *)
(***************************************************************************)
AbsentFile == [state |-> "absent", data |-> DefaultPackageJsonData]
GarbageFile == [state |-> "unparsable", data |-> DefaultPackageJsonData]
JsonFile(d) == [state |-> "json", data |-> d]

ExistingManifests ==
  { \* a project that pins one of the packages and has a field of its own
    [top |-> [k \in {"name", "version", "scripts"} |->
                CASE k = "name" -> "existing-project"
                  [] k = "version" -> "2.0.0"
                  [] k = "scripts" -> "test"],
     hasDeps |-> TRUE,
     dependencies |-> [k \in {Scoped, <<"o">>} |->
                         IF k = Scoped THEN <<"1", "7">> ELSE <<"3">>],
     devDependencies |-> NoMap],
    \* a project whose entry for a package is the empty string
    [top |-> [k \in {"name"} |-> "existing-project"],
     hasDeps |-> TRUE,
     dependencies |-> [k \in {Plain} |-> EmptyString],
     devDependencies |-> NoMap],
    \* a project without a dependencies field
    [top |-> [k \in {"name"} |-> "existing-project"],
     hasDeps |-> FALSE,
     dependencies |-> NoMap,
     devDependencies |-> [k \in {Plain} |-> <<"1">>]] }

PackageJsonFiles ==
  {AbsentFile, GarbageFile} \cup {JsonFile(d) : d \in ExistingManifests}

\* a variant of JSONstringify after which nothing is on disk
StringifyNothing(data) == [state |-> "absent", data |-> DefaultPackageJsonData]

\* JSON.parse(JSON.stringify(data, null, 2)) of a manifest: the object's own
\* fields come back; `dependencies` is written when the object holds it
JSONstringify(data) ==
  [state |-> "json",
   data |-> [top |-> data.top,
             hasDeps |-> data.hasDeps,
             dependencies |-> IF data.hasDeps THEN data.dependencies ELSE NoMap,
             devDependencies |-> data.devDependencies]]

(***************************************************************************)
(* The Linter.  The repository holds four implementations of the class;    *)
(* they differ in loadEffectiveConfig and in the shape of the value lint() *)
(* resolves to.                                                            *)
(***************************************************************************)
\* the most commits one Linter is given
MaxCommits == 2

Linters ==
  {"Linter.part_004", "Linter.part_005_44", "Linter.part_005_194",
   "Linter.part_005_402"}

\* the implementation whose lint() resolves to a LinterResult; the others
\* resolve to a Results
LinterResultImpl == "Linter.part_005_194"

\* configPathInput: null, a file that exists, a file that does not
Null == "null"
ExistingConfigPath == "/work/commitlint.config.mjs"
MissingConfigPath == "/work/non-existent-config.js"
ConfigPathInputs == {Null, ExistingConfigPath, MissingConfigPath}

\* fsExistsSync(this.configPathInput)
ConfigFileExists(path) == path = ExistingConfigPath

\* the rule-sets loadConfig resolves: the rules of the configuration file, and
\* those of the seed { extends: ['@commitlint/config-conventional'] }
FileRules == "rules of the configuration file"
ConventionalRules == "@commitlint/config-conventional"
LoadedHelpUrl == "https://github.com/conventional-changelog/commitlint/#what-is-commitlint"
NotLoaded == [rules |-> "none", helpUrl |-> ""]
loadConfig(rules) == [rules |-> rules, helpUrl |-> LoadedHelpUrl]

HelpUrlInputs == {"", "https://example.com/help"}

\* commits: a hash and a message
Hashes == {"a1b2c3d", "e4f5a6b"}
Messages ==
  {"feat: add x", "add x", "feat: add x|body", "add x|body"}
Commits == [hash : Hashes, message : Messages]
CommitLists == UNION {[1..n -> Commits] : n \in 0..MaxCommits}

\* @commitlint/lint: the rules a message breaks, and the level a rule-set gives
\* a rule (0 off, 1 warning, 2 error).  The configuration file turns type-empty
\* into a warning and sets nothing else.
RuleNames == <<"body-leading-blank", "subject-empty", "type-empty">>

Breaks(message, rule) ==
  \/ rule = "body-leading-blank" /\ message \in {"feat: add x|body", "add x|body"}
  \/ rule \in {"subject-empty", "type-empty"} /\ message \in {"add x", "add x|body"}

RuleLevel(rules, rule) ==
  IF rules = ConventionalRules
  THEN (IF rule = "body-leading-blank" THEN 1 ELSE 2)
  ELSE (IF rule = "type-empty" THEN 1 ELSE 0)

ProblemsAt(message, rules, level) ==
  SelectSeq(RuleNames, LAMBDA r : Breaks(message, r) /\ RuleLevel(rules, r) = level)

\* lintLib(commit.message, loadedConfig.rules, opts)
lintLib(message, rules) ==
  [valid |-> ProblemsAt(message, rules, 2) = <<>>,
   errors |-> ProblemsAt(message, rules, 2),
   warnings |-> ProblemsAt(message, rules, 1),
   input |-> message]

\* what loadEffectiveConfig does for a path: the configuration it resolves to
\* or the message it throws, and the warning it emits
LoadEffectiveConfigThrowing(path, withoutPath) ==
  IF path # Null
  THEN IF ConfigFileExists(path)
       THEN [ok |-> TRUE, config |-> loadConfig(FileRules), message |-> <<>>,
             warned |-> {}]
       ELSE [ok |-> FALSE, config |-> NotLoaded,
             message |-> <<"Specified configuration file was not found at: ",
                           path>>,
             warned |-> {}]
  ELSE withoutPath

NoPathThrows ==
  [ok |-> FALSE, config |-> NotLoaded,
   message |-> <<"No configuration path was provided. A path to a valid ",
                 "commitlint configuration file is required.">>,
   warned |-> {}]

NoPathDefaults ==
  [ok |-> TRUE, config |-> loadConfig(ConventionalRules), message |-> <<>>,
   warned |-> {}]

LoadEffectiveConfigFallback(path) ==
  IF path # Null /\ ConfigFileExists(path)
  THEN [ok |-> TRUE, config |-> loadConfig(FileRules), message |-> <<>>,
        warned |-> {}]
  ELSE [ok |-> TRUE, config |-> loadConfig(ConventionalRules), message |-> <<>>,
        warned |-> IF path # Null
                   THEN {<<"Specified config file '", path, "' not found.">>}
                   ELSE {}]

loadEffectiveConfig(impl, path) ==
  IF impl = "Linter.part_004"
  THEN LoadEffectiveConfigThrowing(path, NoPathThrows)
  ELSE IF impl = LinterResultImpl
  THEN LoadEffectiveConfigFallback(path)
  ELSE LoadEffectiveConfigThrowing(path, NoPathDefaults)

\* the value a per-commit callback resolves to: { ...lintResult, hash } in the
\* implementations that build a Results, { ...commit, lintResult } in the other
LintedItem(impl, commit, rules) ==
  IF impl = LinterResultImpl
  THEN [hash |-> commit.hash, message |-> commit.message,
        lintResult |-> lintLib(commit.message, rules)]
  ELSE [hash |-> commit.hash,
        valid |-> lintLib(commit.message, rules).valid,
        errors |-> lintLib(commit.message, rules).errors,
        warnings |-> lintLib(commit.message, rules).warnings,
        input |-> lintLib(commit.message, rules).input]

\* a variant of PromiseAll that yields the values in the order they settled
PromiseAllInCompletionOrder(values, order) ==
  [k \in 1..Len(order) |-> values[order[k]]]

\* Promise.all(promises): the values in the order of the promises
PromiseAll(values, order) == [i \in 1..Len(order) |-> values[i]]

\* the reduce of the Results constructor
RECURSIVE CountProblems(_)
CountProblems(items) ==
  IF items = <<>> THEN [errorCount |-> 0, warningCount |-> 0]
  ELSE LET counts == CountProblems(SubSeq(items, 1, Len(items) - 1))
           item == items[Len(items)]
       IN  [errorCount |-> counts.errorCount + Len(item.errors),
            warningCount |-> counts.warningCount + Len(item.warnings)]

\* new Results(items, helpUrl)
Results(items, helpUrl) ==
  [kind |-> "Results", items |-> items, helpUrl |-> helpUrl,
   errorCount |-> CountProblems(items).errorCount,
   warningCount |-> CountProblems(items).warningCount]

checkedCount(results) == Len(results.items)

hasErrors(results) == results.errorCount > 0

\* a variant of hasOnlyWarnings that does not look at the errors
HasWarnings(results) == results.warningCount > 0

hasOnlyWarnings(results) == results.errorCount = 0 /\ results.warningCount > 0

\* this.helpUrlInput || loadedConfig.helpUrl || ''
FinalHelpUrl(helpUrlInput, config) ==
  IF helpUrlInput # "" THEN helpUrlInput ELSE config.helpUrl

\* formatResult({ results }, { helpUrl }): nothing for results without
\* problems, else the problems followed by the help URL
RECURSIVE ProblemLines(_)
ProblemLines(lintedCommits) ==
  IF lintedCommits = <<>> THEN <<>>
  ELSE ProblemLines(SubSeq(lintedCommits, 1, Len(lintedCommits) - 1))
       \o lintedCommits[Len(lintedCommits)].lintResult.errors
       \o lintedCommits[Len(lintedCommits)].lintResult.warnings

formatLintOutput(lintedCommits, helpUrl) ==
  IF ProblemLines(lintedCommits) = <<>> THEN <<>>
  ELSE ProblemLines(lintedCommits) \o <<helpUrl>>

\* the LinterResult lint() resolves to; hasErrors and hasOnlyWarnings close over
\* the linted commits, which never change afterwards
LinterResult(lintedCommits, config, helpUrl) ==
  [kind |-> "LinterResult", lintedCommits |-> lintedCommits,
   formattedResults |-> formatLintOutput(lintedCommits, helpUrl),
   loadedConfig |-> config,
   hasOnlyWarnings |->
     /\ Len(lintedCommits) > 0
     /\ \A i \in DOMAIN lintedCommits : lintedCommits[i].lintResult.valid
     /\ \E i \in DOMAIN lintedCommits :
          Len(lintedCommits[i].lintResult.warnings) > 0,
   hasErrors |->
     \E i \in DOMAIN lintedCommits :
       /\ ~lintedCommits[i].lintResult.valid
       /\ Len(lintedCommits[i].lintResult.errors) > 0]

\* the result lint() returns for an empty commit list without loading anything
EmptyLinterResult ==
  [kind |-> "LinterResult", lintedCommits |-> <<>>, formattedResults |-> <<>>,
   loadedConfig |-> [rules |-> "none", helpUrl |-> ""],
   hasOnlyWarnings |-> FALSE, hasErrors |-> FALSE]

NoResult == [kind |-> "none"]

\* the inputs of the action
FailInputs == {"true", "false", ""}
getFailOnWarnings(input) == input = "true"

\* a variant of getFailOnErrors that wants the input to be 'true'
GetFailOnErrorsWhenTrue(input) == input = "true"

getFailOnErrors(input) == input # "false"

\* mapResultOutput
mapResultOutput(lintedCommit) ==
  [hash |-> lintedCommit.hash,
   message |-> lintedCommit.lintResult.input,
   valid |-> lintedCommit.lintResult.valid,
   errors |-> lintedCommit.lintResult.errors,
   warnings |-> lintedCommit.lintResult.warnings]

VARIABLES
  linterImpl,          \* the implementation of Linter
  caller,              \* who calls lint(): a direct caller or runLintingProcess
  commitsToLint,       \* the commits the Linter was constructed with
  configPathInput,     \* the configuration path it was constructed with
  helpUrlInput,        \* the help URL it was constructed with
  failOnWarnings,      \* the `fail-on-warnings` input
  failOnErrors,        \* the `fail-on-errors` input
  lpc,                 \* where lint() is
  loadedConfig,        \* what loadEffectiveConfig resolved to
  settled,             \* the settled per-commit promises, by input position
  completionOrder,     \* the input positions in the order they settled
  result,              \* what lint() resolved to
  lintError,           \* the message lint() rejected with
  coreWarnings,        \* the warnings emitted
  runOutput,           \* the `results` output of the action
  setFailedCalls,      \* the calls of setFailed
  runLog               \* what runLintingProcess reported, by kind

linterVars ==
  <<linterImpl, caller, commitsToLint, configPathInput, helpUrlInput,
    failOnWarnings, failOnErrors, lpc, loadedConfig, settled, completionOrder,
    result, lintError, coreWarnings, runOutput, setFailedCalls, runLog>>

\* no Linter is at work
LinterIdle ==
  /\ linterImpl = "Linter.part_004"
  /\ caller = "direct"
  /\ commitsToLint = <<>>
  /\ configPathInput = Null
  /\ helpUrlInput = ""
  /\ failOnWarnings = ""
  /\ failOnErrors = ""
  /\ lpc = "unused"
  /\ loadedConfig = NotLoaded
  /\ settled = <<>>
  /\ completionOrder = <<>>
  /\ result = NoResult
  /\ lintError = <<>>
  /\ coreWarnings = {}
  /\ runOutput = <<>>
  /\ setFailedCalls = 0
  /\ runLog = {}

(***************************************************************************)
(* The runner: runx and prepareEnvironmentAndGetConfigPath of index.ts.    *)
(***************************************************************************)
\* file names, cut in front of each '.'
Commitlintrc == <<".commitlintrc">>
CommitlintrcJson == <<".commitlintrc", ".json">>
CommitlintrcJSON == <<".commitlintrc", ".JSON">>
CommitlintrcYml == <<".commitlintrc", ".yml">>
CommitlintConfigJs == <<"commitlint", ".config", ".js">>
CommitlintConfigMjs == <<"commitlint", ".config", ".mjs">>
CommitlintConfigCts == <<"commitlint", ".config", ".cts">>
PackageJsonName == <<"package", ".json">>

\* path.extname: from the last '.' of the base name on, unless that '.' is its
\* first character
pathExtname(name) == IF Len(name) >= 2 THEN name[Len(name)] ELSE ""

\* String.prototype.toLowerCase on the extensions above
toLowerCase(s) == IF s = ".JSON" THEN ".json" ELSE s

\* ConfigFileType
Declarative == "declarative"
Imperative == "imperative"
Unknown == "unknown"

getConfigType(name) ==
  IF toLowerCase(pathExtname(name)) \in {".json", ".yaml", ".yml"}
  THEN Declarative
  ELSE IF toLowerCase(pathExtname(name)) \in {".js", ".cjs", ".mjs", ".ts"}
  THEN Imperative
  ELSE IF name = PackageJsonName THEN Declarative
  ELSE Unknown

\* a configuration that extends one package
ExtendsPlain == [extends |-> Arr(<<Str(Plain)>>), plugins |-> Absent]

\* the configuration files a workspace holds in a run
RunConfigFiles ==
  {[name |-> Commitlintrc, syntax |-> "yaml", config |-> ExtendsPlain],
   [name |-> CommitlintrcJson, syntax |-> "json", config |-> ExtendsPlain],
   [name |-> CommitlintrcJSON, syntax |-> "malformed", config |-> NoConfig],
   [name |-> CommitlintrcYml, syntax |-> "yaml", config |-> NoConfig],
   [name |-> CommitlintConfigJs, syntax |-> "script", config |-> NoConfig],
   [name |-> CommitlintConfigMjs, syntax |-> "script", config |-> NoConfig],
   [name |-> CommitlintConfigCts, syntax |-> "script", config |-> NoConfig],
   [name |-> PackageJsonName, syntax |-> "json", config |-> NoConfig]}

NoFile == [name |-> <<>>, syntax |-> "none", config |-> NoConfig]

\* the `config-file` input: not given, a file that exists, a file that does not
ConfigFileInputs ==
  {[given |-> FALSE, exists |-> FALSE, file |-> NoFile]}
    \cup {[given |-> TRUE, exists |-> TRUE, file |-> f] : f \in RunConfigFiles}
    \cup {[given |-> TRUE, exists |-> FALSE, file |-> NoFile]}

\* what explorer.search does: it finds nothing, finds a file (which may be
\* empty), or throws
SearchOutcomes ==
  {[outcome |-> "none", file |-> NoFile, isEmpty |-> FALSE],
   [outcome |-> "throws", file |-> NoFile, isEmpty |-> FALSE],
   [outcome |-> "found", file |-> [name |-> CommitlintrcYml, syntax |-> "yaml",
                                   config |-> NoConfig],
    isEmpty |-> TRUE]}
    \cup {[outcome |-> "found", file |-> f, isEmpty |-> FALSE] :
            f \in RunConfigFiles}

NotSearched == [outcome |-> "not searched", file |-> NoFile, isEmpty |-> FALSE]

\* findCommitlintConfig: the file of a result that is not empty, else null
findCommitlintConfig(search) ==
  IF search.outcome = "found" /\ ~search.isEmpty
  THEN [found |-> TRUE, file |-> search.file]
  ELSE [found |-> FALSE, file |-> NoFile]

\* the strategy prepareEnvironmentAndGetConfigPath selects for a file
SelectStrategy(name) ==
  IF name = PackageJsonName /\ getConfigType(name) = Declarative
  THEN "ImperativeStrategy"
  ELSE IF getConfigType(name) = Declarative
  THEN "DeclarativeStrategy.declarative_ts"
  ELSE IF getConfigType(name) = Imperative THEN "ImperativeStrategy"
  ELSE "none"

\* parseInt(s, 10)
DecimalDigits == <<"0", "1", "2", "3", "4", "5", "6", "7", "8", "9">>
IsDigit(c) == \E i \in DOMAIN DecimalDigits : DecimalDigits[i] = c
DigitValue(c) == (CHOOSE i \in DOMAIN DecimalDigits : DecimalDigits[i] = c) - 1

RECURSIVE LeadingDigits(_)
LeadingDigits(s) ==
  IF s = <<>> \/ ~IsDigit(s[1]) THEN <<>>
  ELSE <<s[1]>> \o LeadingDigits(Tail(s))

RECURSIVE DecimalValue(_)
DecimalValue(ds) ==
  IF ds = <<>> THEN 0
  ELSE DecimalValue(SubSeq(ds, 1, Len(ds) - 1)) * Len(DecimalDigits)
       + DigitValue(ds[Len(ds)])

parseInt(s) ==
  LET t == TrimStart(s)
      signed == t # <<>> /\ t[1] \in {"-", "+"}
      digits == LeadingDigits(IF signed THEN Tail(t) ELSE t)
  IN  IF digits = <<>> THEN [nan |-> TRUE, value |-> 0]
      ELSE [nan |-> FALSE,
            value |-> IF t[1] = "-" THEN 0 - DecimalValue(digits)
                      ELSE DecimalValue(digits)]

\* the `commit-depth` input
CommitDepthInputs ==
  {<<>>, <<" ">>, <<"0">>, <<"1">>, <<"-", "1">>, <<"x">>, <<" ", "1", "x">>}

NullDepth == [isNull |-> TRUE, value |-> 0]

\* getCommitDepth
getCommitDepth(input) ==
  IF Trim(input) = <<>> \/ parseInt(input).nan THEN NullDepth
  ELSE [isNull |-> FALSE,
        value |-> IF parseInt(input).value > 0 THEN parseInt(input).value ELSE 0]

\* commitDepth && eventCommits.length > commitDepth
\*   ? eventCommits.slice(0, commitDepth) : eventCommits
LimitCommits(depth, eventCommits) ==
  IF ~depth.isNull /\ depth.value # 0 /\ Len(eventCommits) > depth.value
  THEN SubSeq(eventCommits, 1, depth.value)
  ELSE eventCommits

\* GITHUB_EVENT_NAME and getCommitFetcher
EventNames == {"push", "pull_request", "merge_group", "workflow_dispatch"}

getCommitFetcher(name) ==
  IF name = "merge_group" THEN "MergeGroupCommitFetcher"
  ELSE IF name \in {"pull_request", "pull_request_target"}
  THEN "PullRequestCommitFetcher"
  ELSE IF name = "push" THEN "PushEventCommitFetcher"
  ELSE Null

\* the commits a fetcher returns in a run
RunCommits ==
  {[hash |-> "a1b2c3d", message |-> "feat: add x"],
   [hash |-> "e4f5a6b", message |-> "add x|body"]}
RunCommitLists == UNION {[1..n -> RunCommits] : n \in 0..MaxCommits}

(***************************************************************************)
(* The commit fetchers.  A fetcher is given the payload of the event; the  *)
(* push and the pull-request fetcher await one call of the GitHub API,     *)
(* which returns commits or fails.                                         *)
(***************************************************************************)
\* the commits a push payload lists: `id` may be missing
PayloadCommits ==
  {[id |-> "0ddba11", message |-> "feat: add x"],
   [id |-> "", message |-> "add x"]}

\* the `commits` of a push payload: not there, empty, or one commit
NoPayloadCommits == [given |-> FALSE, list |-> <<>>]
PayloadCommitLists ==
  {NoPayloadCommits, [given |-> TRUE, list |-> <<>>]}
    \cup {[given |-> TRUE, list |-> <<c>>] : c \in PayloadCommits}

\* the payload of the event, as far as the fetchers read it: a SHA or a
\* number that is missing is the empty string or 0
NoPayload ==
  [before |-> "", after |-> "", commits |-> NoPayloadCommits, number |-> 0,
   mergeGroup |-> FALSE]

PushPayloads ==
  {[NoPayload EXCEPT !.before = b, !.after = a, !.commits = c] :
     b \in {"", "5ca1ab1e"}, a \in {"", "5ca1ab1e", "f005ba11"},
     c \in PayloadCommitLists}

PullRequestPayloads == {NoPayload, [NoPayload EXCEPT !.number = 7]}

MergeGroupPayloads == {NoPayload, [NoPayload EXCEPT !.mergeGroup = TRUE]}

PayloadsOf(fetcher) ==
  IF fetcher = "PushEventCommitFetcher" THEN PushPayloads
  ELSE IF fetcher = "PullRequestCommitFetcher" THEN PullRequestPayloads
  ELSE MergeGroupPayloads

\* what a call of the GitHub API does
NotCalled == [outcome |-> "not called", commits |-> <<>>]
ApiFails == [outcome |-> "fails", commits |-> <<>>]
ApiOutcomes ==
  {ApiFails} \cup {[outcome |-> "returns", commits |-> l] : l \in RunCommitLists}

\* a variant of CompareApplicable that asks for the SHAs only
CompareApplicableWhenPresent(payload) ==
  payload.before # "" /\ payload.after # ""

\* before && after && before !== after
CompareApplicable(payload) ==
  payload.before # "" /\ payload.after # "" /\ payload.before # payload.after

\* payloadCommits.map(commit => ({message, hash: commit.id || 'unknown_sha'}))
RECURSIVE MapPayloadCommits(_)
MapPayloadCommits(list) ==
  IF list = <<>> THEN <<>>
  ELSE <<[hash |-> IF Head(list).id # "" THEN Head(list).id ELSE "unknown_sha",
          message |-> Head(list).message]>>
       \o MapPayloadCommits(Tail(list))

\* what a fetcher hands back: the commits, or the message it rejects with,
\* and the outcome of the API call it made
Fetched(commits, api) ==
  [ok |-> TRUE, commits |-> commits, message |-> <<>>, api |-> api]
FetchRejected(message, api) ==
  [ok |-> FALSE, commits |-> <<>>, message |-> message, api |-> api]

\* PushEventCommitFetcher.fetchCommits
PushEventFetchCommits(payload, api) ==
  IF CompareApplicable(payload)
  THEN IF api.outcome = "returns" THEN Fetched(api.commits, api)
       ELSE FetchRejected(<<"Failed to compare commits via API for ",
                            payload.before, "...", payload.after, ": ",
                            "Server Error">>, api)
  ELSE IF payload.commits.given /\ Len(payload.commits.list) > 0
  THEN Fetched(MapPayloadCommits(payload.commits.list), NotCalled)
  ELSE Fetched(<<>>, NotCalled)

\* PullRequestCommitFetcher.fetchCommits: the error of listCommits is not caught
PullRequestFetchCommits(payload, api) ==
  IF payload.number = 0 THEN Fetched(<<>>, NotCalled)
  ELSE IF api.outcome = "returns" THEN Fetched(api.commits, api)
  ELSE FetchRejected(<<"Server Error">>, api)

\* the head commit of a merge group
HeadCommit == [hash |-> "a1b2c3d", message |-> "add x|body"]

\* MergeGroupCommitFetcher.fetchCommits
MergeGroupFetchCommits(payload) ==
  IF payload.mergeGroup THEN Fetched(<<HeadCommit>>, NotCalled)
  ELSE Fetched(<<>>, NotCalled)

\* commitFetcher.fetchCommits
fetchCommits(fetcher, payload, api) ==
  IF fetcher = "PushEventCommitFetcher" THEN PushEventFetchCommits(payload, api)
  ELSE IF fetcher = "PullRequestCommitFetcher"
  THEN PullRequestFetchCommits(payload, api)
  ELSE MergeGroupFetchCommits(payload)

\* the inputs `token` (required) and GITHUB_WORKSPACE
Environments == {"ready", "no token", "no workspace"}

\* the package.json a workspace holds in a run
RunManifest ==
  [top |-> [k \in {"name"} |-> "existing-project"],
   hasDeps |-> TRUE,
   dependencies |-> [k \in {Plain} |-> <<"1">>],
   devDependencies |-> NoMap]

VARIABLES
  rpc,                 \* where runx is
  environment,         \* whether the token and GITHUB_WORKSPACE are there
  configFileInput,     \* the `config-file` input and the file it names
  commitDepthInput,    \* the `commit-depth` input
  eventName,           \* GITHUB_EVENT_NAME
  searchResult,        \* what explorer.search did
  resolvedConfigPath,  \* the file prepareEnvironmentAndGetConfigPath resolved
  eventCommits,        \* the commits the fetcher returned
  runWarnings,         \* the warnings runx emitted, by kind
  runError,            \* the message of the error that ended runx
  payload,             \* the payload of the event that the fetcher was given
  apiCall,             \* what the fetcher's call of the GitHub API did
  fetchCalls           \* how often fetchCommits was called

runVars ==
  <<rpc, environment, configFileInput, commitDepthInput, eventName,
    searchResult, resolvedConfigPath, eventCommits, runWarnings, runError,
    payload, apiCall, fetchCalls>>

NotResolved == [found |-> FALSE, file |-> NoFile]

\* runx is not running
RunIdle ==
  /\ rpc = "unused"
  /\ environment = "ready"
  /\ configFileInput = [given |-> FALSE, exists |-> FALSE, file |-> NoFile]
  /\ commitDepthInput = <<>>
  /\ eventName = "push"
  /\ searchResult = NotSearched
  /\ resolvedConfigPath = NotResolved
  /\ eventCommits = <<>>
  /\ runWarnings = {}
  /\ runError = <<>>
  /\ payload = NoPayload
  /\ apiCall = NotCalled
  /\ fetchCalls = 0

(***************************************************************************)
(* The strategies as a state machine.  `execute` is an async method: it    *)
(* runs to its first await and is resumed when the awaited file operation  *)
(* completes.  npm install is a synchronous subprocess.                    *)
(***************************************************************************)
VARIABLES
  allowForceInstall,      \* the `allow-force-install` input
  npmExit,                \* how the last npm install of a strategy ended
  strategy,               \* the implementation whose method is called
  configFile,             \* the configuration file on disk
  packageJson,            \* package.json in the working directory
  before,                 \* package.json when the current call began
  pc,                     \* where the call is
  dependenciesToInstall,  \* the extracted names
  packageJsonData,        \* the object about to be written
  npmInstallCalls,        \* how often npm install was started in this call
  manifestWrites,         \* how often package.json was written in this call
  warnings,               \* the warnings emitted in this call
  error                   \* the message the call rejected with

strategyVars ==
  <<allowForceInstall, npmExit, strategy, configFile, packageJson, before, pc, dependenciesToInstall,
    packageJsonData, npmInstallCalls, manifestWrites, warnings, error>>

\* execute called a second time on what the first call left
VARIABLES
  execution,              \* whether this is the first or the second call
  afterFirst              \* package.json when the first call had ended

repeatVars == <<execution, afterFirst>>

vars == <<strategyVars, linterVars, runVars, repeatVars>>

\* execute has not been called a second time
NotExecuted == [completed |-> FALSE, disk |-> AbsentFile]
RepeatIdle ==
  /\ execution = "first"
  /\ afterFirst = NotExecuted

\* no npm install of a strategy has ended
NoExit == [status |-> 0, stderr |-> "", stdout |-> ""]

Strategies ==
  DeclarativeImpls \cup {"ImperativeStrategy", "declarativeLoader", "createLoaders"}

\* the configuration file an imperative strategy is given: a script
ScriptFile == [ext |-> ".mjs", syntax |-> "script", config |-> NoConfig]

\* the configuration files each strategy is called on
FilesOf(s) ==
  IF s = "ImperativeStrategy" THEN {ScriptFile}
  ELSE IF s = "declarativeLoader" THEN {f \in ConfigFiles : f.ext # ".txt"}
  ELSE IF s = "createLoaders"
  THEN {f \in ConfigFiles : f.ext # ".txt"} \cup {ScriptFile}
  ELSE ConfigFiles

\* createLoaders(allowForce) is given whether the input is 'true'; the
\* strategies take no such argument
Init ==
  /\ strategy \in Strategies
  /\ allowForceInstall \in
       IF strategy = "createLoaders" THEN {"true", "false"} ELSE {"false"}
  /\ npmExit = NoExit
  /\ configFile \in FilesOf(strategy)
  /\ packageJson \in PackageJsonFiles
  /\ before = packageJson
  /\ pc = "idle"
  /\ dependenciesToInstall = <<>>
  /\ packageJsonData = DefaultPackageJsonData
  /\ npmInstallCalls = 0
  /\ manifestWrites = 0
  /\ warnings = {}
  /\ error = <<>>
  /\ RepeatIdle
  /\ LinterIdle
  /\ RunIdle

\* the call begins: DeclarativeStrategy.execute up to `await readFile(filepath)`
ExecuteDeclarative ==
  /\ strategy \in DeclarativeImpls
  /\ pc = "idle"
  /\ pc' = "parsing"
  /\ before' = packageJson
  /\ dependenciesToInstall' = <<>>
  /\ packageJsonData' = DefaultPackageJsonData
  /\ npmInstallCalls' = 0
  /\ manifestWrites' = 0
  /\ warnings' = {}
  /\ error' = <<>>
  /\ UNCHANGED <<allowForceInstall, npmExit, strategy, configFile, packageJson>>
  /\ UNCHANGED linterVars
  /\ UNCHANGED runVars
  /\ UNCHANGED repeatVars

\* the parser fails: execute rejects with the wrapped message
ParseFails ==
  /\ pc = "parsing"
  /\ ~ParseDeclarativeConfigFile(strategy, configFile).ok
  /\ pc' = "rejected"
  /\ error' = <<"Failed to parse declarative config file ", configFilePath(configFile), ": ">>
              \o ParseDeclarativeConfigFile(strategy, configFile).message
  /\ warnings' = IF WarnsJsonFailed(configFile) THEN warnings \cup {"json-parse-failed"}
                 ELSE warnings
  /\ UNCHANGED <<allowForceInstall, npmExit, strategy, configFile, packageJson, before, dependenciesToInstall,
                 packageJsonData, npmInstallCalls, manifestWrites>>
  /\ UNCHANGED linterVars
  /\ UNCHANGED runVars
  /\ UNCHANGED repeatVars

\* a variant of WithDependencies that adds no name
WithoutDependencies(data, names) == data

\* the data the forEach leaves in packageJsonData
WithDependencies(data, names) ==
  [data EXCEPT !.dependencies = AddDependencies(data.dependencies, names)]

\* a variant of AfterExtraction without the early return
AfterExtractionNoReturn(deps, disk) ==
  IF disk.state # "absent" THEN "readingManifest" ELSE "writing"

\* where execute goes once the names are extracted: it returns when there are
\* none, reads package.json when fsExistsSync finds it, and writes it otherwise
AfterExtraction(deps, disk) ==
  IF deps = <<>> THEN "resolved"
  ELSE IF disk.state # "absent" THEN "readingManifest" ELSE "writing"

\* the parser succeeds: extraction, the early return, and execute up to its
\* next await (reading package.json if it exists, writing it otherwise)
ParseSucceeds ==
  /\ pc = "parsing"
  /\ ParseDeclarativeConfigFile(strategy, configFile).ok
  /\ LET rawConfig == ParseDeclarativeConfigFile(strategy, configFile).config
         deps == ExtractDependencies(strategy, rawConfig)
     IN  /\ dependenciesToInstall' = deps
         /\ pc' = AfterExtraction(deps, packageJson)
         /\ IF AfterExtraction(deps, packageJson) = "writing"
            THEN packageJsonData' = WithDependencies(DefaultPackageJsonData, deps)
            ELSE UNCHANGED packageJsonData
  /\ warnings' = IF WarnsJsonFailed(configFile) THEN warnings \cup {"json-parse-failed"}
                 ELSE warnings
  /\ UNCHANGED <<allowForceInstall, npmExit, strategy, configFile, packageJson, before, npmInstallCalls,
                 manifestWrites, error>>
  /\ UNCHANGED linterVars
  /\ UNCHANGED runVars
  /\ UNCHANGED repeatVars

\* `await readFile(packageJsonPath)` completes: JSON.parse, the merge with the
\* defaults (or the warning and the defaults alone), the forEach, up to the write
ReadManifest ==
  /\ pc = "readingManifest"
  /\ IF packageJson.state = "json"
     THEN /\ packageJsonData' =
               WithDependencies(MergeExisting(DefaultPackageJsonData, packageJson.data),
                                dependenciesToInstall)
          /\ UNCHANGED warnings
     ELSE /\ packageJsonData' =
               WithDependencies(DefaultPackageJsonData, dependenciesToInstall)
          /\ warnings' = warnings \cup {"manifest-unreadable"}
  /\ pc' = "writing"
  /\ UNCHANGED <<allowForceInstall, npmExit, strategy, configFile, packageJson, before, dependenciesToInstall,
                 npmInstallCalls, manifestWrites, error>>
  /\ UNCHANGED linterVars
  /\ UNCHANGED runVars
  /\ UNCHANGED repeatVars

\* `await writeFile(...)` completes; on success npm install is started
WriteManifest ==
  /\ pc = "writing"
  /\ \E written \in BOOLEAN :
       IF written
       THEN /\ packageJson' = JSONstringify(packageJsonData)
            /\ manifestWrites' = manifestWrites + 1
            /\ pc' = "installing"
            /\ npmInstallCalls' = npmInstallCalls + 1
            /\ UNCHANGED error
       ELSE /\ pc' = "rejected"
            /\ error' = <<"Failed to write package.json at ", packageJsonPath, ": ", "EACCES">>
            /\ UNCHANGED <<packageJson, manifestWrites, npmInstallCalls>>
  /\ UNCHANGED <<allowForceInstall, npmExit, strategy, configFile, before, dependenciesToInstall,
                 packageJsonData, warnings>>
  /\ UNCHANGED linterVars
  /\ UNCHANGED runVars
  /\ UNCHANGED repeatVars

\* the messages npm leaves on stderr when it fails
NpmStderr == "npm ERR! code E404"

\* what npm may leave on stderr and on stdout
NpmStderrTexts == {"", NpmStderr}
NpmStdoutTexts == {"", " ", "up to date"}

\* the characters of these texts
Characters(text) ==
  CASE text = "" -> <<>>
    [] text = " " -> <<" ">>
    [] text = "up to date" ->
         <<"u", "p", " ", "t", "o", " ", "d", "a", "t", "e">>
    [] text = NpmStderr ->
         <<"n", "p", "m", " ", "E", "R", "R", "!", " ", "c", "o", "d", "e",
           " ", "E", "4", "0", "4">>

\* a variant of InstallFailedMessage that leaves the captured output out
InstallFailedMessageWithoutOutput(wd, exit) ==
  <<"npm install failed in ", wd, ".", "\nExit Code: ", ToString(exit.status),
    "\nError Message: ",
    "Command failed: npm install --quiet --no-audit --no-fund">>

\* the message runNpmInstall throws when execSync threw with an exit status
InstallFailedMessage(wd, exit) ==
  <<"npm install failed in ", wd, ".", "\nExit Code: ", ToString(exit.status),
    "\nError Message: ",
    "Command failed: npm install --quiet --no-audit --no-fund">>
    \o (IF exit.stderr # "" THEN <<"\nStderr: ", exit.stderr>> ELSE <<>>)
    \o (IF exit.stdout # "" /\ Trim(Characters(exit.stdout)) # <<>>
        THEN <<"\nStdout: ", exit.stdout>> ELSE <<>>)

\* a variant of AfterInstall in which runNpmInstall returns whatever the
\* exit status
AfterInstallIgnoringStatus(status) == "resolved"

\* where runNpmInstall leaves execute: it returns when npm exits with 0 and
\* throws when execSync threw
AfterInstall(status) == IF status = 0 THEN "resolved" ELSE "rejected"

\* runNpmInstall: execSync returns, or throws with the exit status and the
\* captured output
NpmInstallExits ==
  /\ pc = "installing"
  /\ \/ /\ pc' = AfterInstall(0)
        /\ npmExit' = NoExit
        /\ UNCHANGED error
     \/ \E stderr \in NpmStderrTexts, stdout \in NpmStdoutTexts :
          /\ pc' = AfterInstall(1)
          /\ npmExit' = [status |-> 1, stderr |-> stderr, stdout |-> stdout]
          /\ error' = InstallFailedMessage(workingDirectory, npmExit')
  /\ UNCHANGED <<allowForceInstall, strategy, configFile, packageJson, before,
                 dependenciesToInstall, packageJsonData, npmInstallCalls,
                 manifestWrites, warnings>>
  /\ UNCHANGED linterVars
  /\ UNCHANGED runVars
  /\ UNCHANGED repeatVars

\* a variant of ManifestFound that does not look at the disk
ManifestFoundAlways(disk) == TRUE

\* fsExistsSync(packageJsonPath)
ManifestFound(disk) == disk.state # "absent"

\* ImperativeStrategy.execute: package.json must exist; npm install is started
ExecuteImperative ==
  /\ strategy = "ImperativeStrategy"
  /\ pc = "idle"
  /\ before' = packageJson
  /\ dependenciesToInstall' = <<>>
  /\ packageJsonData' = DefaultPackageJsonData
  /\ manifestWrites' = 0
  /\ warnings' = {}
  /\ IF ~ManifestFound(packageJson)
     THEN /\ pc' = "rejected"
          /\ error' = <<"Imperative strategy: package.json not found in '",
                        workingDirectory, "' at '", packageJsonPath,
                        "'. A package.json is required for this strategy.">>
          /\ npmInstallCalls' = 0
     ELSE /\ pc' = "installing"
          /\ error' = <<>>
          /\ npmInstallCalls' = 1
  /\ UNCHANGED <<allowForceInstall, npmExit, strategy, configFile, packageJson>>
  /\ UNCHANGED linterVars
  /\ UNCHANGED runVars
  /\ UNCHANGED repeatVars

\* the cosmiconfig loader that declarativeLoader wraps, by extension
BaseLoader(file) ==
  IF file.ext = ".json" THEN JSONparse(file) ELSE parseYaml(file)

\* the loader that declarativeLoader returns, called on the configuration file
DeclarativeLoader ==
  /\ strategy = "declarativeLoader"
  /\ pc = "idle"
  /\ before' = packageJson
  /\ npmInstallCalls' = 0
  /\ warnings' = {}
  /\ dependenciesToInstall' = <<>>
  /\ IF ~BaseLoader(configFile).ok
     THEN /\ pc' = "rejected"
          /\ error' = BaseLoader(configFile).message
          /\ UNCHANGED <<packageJson, packageJsonData>>
          /\ manifestWrites' = 0
     ELSE LET dependencies == LoaderDependencies(BaseLoader(configFile).config)
          IN  IF DOMAIN dependencies = {}
              THEN /\ pc' = "resolved"
                   /\ error' = <<>>
                   /\ UNCHANGED <<packageJson, packageJsonData>>
                   /\ manifestWrites' = 0
              ELSE IF packageJson.state # "absent"
              THEN /\ pc' = "rejected"
                   /\ error' = <<"File package.json in ", workingDirectory,
                                 " already exists.">>
                   /\ UNCHANGED <<packageJson, packageJsonData>>
                   /\ manifestWrites' = 0
              ELSE /\ pc' = "resolved"
                   /\ error' = <<>>
                   /\ packageJsonData' = LoaderManifest(dependencies)
                   /\ packageJson' = JSONstringify(LoaderManifest(dependencies))
                   /\ manifestWrites' = 1
  /\ UNCHANGED <<allowForceInstall, npmExit, strategy, configFile>>
  /\ UNCHANGED linterVars
  /\ UNCHANGED runVars
  /\ UNCHANGED repeatVars

\* the command of AbstractStrategy.runNpmInstall
runNpmInstallCommand ==
  <<"npm", "install", "--quiet", "--no-audit", "--no-fund">>

\* the command of imperativeLoader
ImperativeLoaderCommand(allowForce) ==
  IF allowForce
  THEN <<"npm", "install", "--force", "--no-audit", "--no-progress",
         "--no-fund", "--quiet">>
  ELSE <<"npm", "install", "--no-audit", "--no-progress", "--no-fund",
         "--quiet">>

\* the command the installer is started with
InstallCommand(s, allowForce) ==
  IF s = "createLoaders" THEN ImperativeLoaderCommand(allowForce)
  ELSE runNpmInstallCommand

\* what the loader wrapped by imperativeLoader hands back: for a declarative
\* file declarativeLoader's parse, for a script the configuration
WrappedLoader(file) ==
  IF file.syntax = "script"
  THEN [ok |-> TRUE, config |-> NoConfig, message |-> <<>>]
  ELSE BaseLoader(file)

\* a loader of createLoaders(allowForce), called on the configuration file:
\* declarativeLoader for a declarative file, then imperativeLoader's npm
\* install, which throws an Error without message when npm fails
CreatedLoader ==
  /\ strategy = "createLoaders"
  /\ pc = "idle"
  /\ before' = packageJson
  /\ warnings' = {}
  /\ dependenciesToInstall' = <<>>
  /\ LET dependencies == LoaderDependencies(WrappedLoader(configFile).config)
     IN  IF ~WrappedLoader(configFile).ok
         THEN /\ pc' = "rejected"
              /\ error' = WrappedLoader(configFile).message
              /\ npmInstallCalls' = 0
              /\ manifestWrites' = 0
              /\ UNCHANGED <<packageJson, packageJsonData>>
         ELSE IF DOMAIN dependencies # {} /\ packageJson.state # "absent"
         THEN /\ pc' = "rejected"
              /\ error' = <<"File package.json in ", workingDirectory,
                            " already exists.">>
              /\ npmInstallCalls' = 0
              /\ manifestWrites' = 0
              /\ UNCHANGED <<packageJson, packageJsonData>>
         ELSE /\ IF DOMAIN dependencies # {}
                 THEN /\ packageJsonData' = LoaderManifest(dependencies)
                      /\ packageJson' = JSONstringify(LoaderManifest(dependencies))
                      /\ manifestWrites' = 1
                 ELSE /\ manifestWrites' = 0
                      /\ UNCHANGED <<packageJson, packageJsonData>>
              /\ npmInstallCalls' = 1
              /\ error' = <<>>
              /\ \E status \in {0, 1} :
                   pc' = IF status = 0 THEN "resolved" ELSE "rejected"
  /\ UNCHANGED <<allowForceInstall, npmExit, strategy, configFile>>
  /\ UNCHANGED linterVars
  /\ UNCHANGED runVars
  /\ UNCHANGED repeatVars

Next ==
  \/ ExecuteDeclarative
  \/ ParseFails
  \/ ParseSucceeds
  \/ ReadManifest
  \/ WriteManifest
  \/ NpmInstallExits
  \/ ExecuteImperative
  \/ DeclarativeLoader
  \/ CreatedLoader

Spec == Init /\ [][Next]_vars

(***************************************************************************)
(* DeclarativeStrategy.execute called twice in a row on the same           *)
(* configuration file and working directory.                               *)
(***************************************************************************)
TwiceInit ==
  /\ Init
  /\ strategy \in DeclarativeImpls

\* the second call begins where the first one ended, whether it resolved or
\* rejected; `completed` says that the first call did not fail at its write
ExecuteAgain ==
  /\ strategy \in DeclarativeImpls
  /\ execution = "first"
  /\ pc \in {"resolved", "rejected"}
  /\ execution' = "second"
  /\ afterFirst' =
       [completed |-> ~(pc = "rejected" /\ manifestWrites = 0
                          /\ dependenciesToInstall # <<>>),
        disk |-> packageJson]
  /\ pc' = "parsing"
  /\ before' = packageJson
  /\ dependenciesToInstall' = <<>>
  /\ packageJsonData' = DefaultPackageJsonData
  /\ npmInstallCalls' = 0
  /\ manifestWrites' = 0
  /\ warnings' = {}
  /\ error' = <<>>
  /\ npmExit' = NoExit
  /\ UNCHANGED <<allowForceInstall, strategy, configFile, packageJson>>
  /\ UNCHANGED linterVars
  /\ UNCHANGED runVars

TwiceNext ==
  \/ ExecuteDeclarative
  \/ ParseFails
  \/ ParseSucceeds
  \/ ReadManifest
  \/ WriteManifest
  \/ NpmInstallExits
  \/ ExecuteAgain

TwiceSpec == TwiceInit /\ [][TwiceNext]_vars

(***************************************************************************)
(* Properties of the strategies.                                           *)
(***************************************************************************)
Contains(message, part) == \E i \in 1..Len(message) : message[i] = part

IsLocal(dep) == StartsWith(dep, ".") \/ IsAbsolute(dep)

\* the dependency map of the manifest a strategy wrote
WrittenDependencies ==
  IF strategy = "declarativeLoader" THEN packageJson.data.devDependencies
  ELSE packageJson.data.dependencies

\* C1 (as claimed): when DeclarativeStrategy.execute has written package.json
\* over an existing, parsable one, every extracted name that was a key of
\* `dependencies` keeps exactly its former value, and every extracted name
\* that is no local path and was no key has the value '*'.
C1_ExistingValueKept ==
  (strategy \in DeclarativeImpls /\ manifestWrites > 0 /\ before.state = "json") =>
    \A i \in 1..Len(dependenciesToInstall) :
      LET dep == dependenciesToInstall[i]
      IN  IF dep \in DOMAIN before.data.dependencies
          THEN /\ dep \in DOMAIN packageJson.data.dependencies
               /\ packageJson.data.dependencies[dep] = before.data.dependencies[dep]
          ELSE ~IsLocal(dep) =>
                 /\ dep \in DOMAIN packageJson.data.dependencies
                 /\ packageJson.data.dependencies[dep] = Wildcard

\* C2 (as claimed): whichever code writes the manifest of a declarative
\* configuration (DeclarativeStrategy.execute, declarativeLoader), a
\* configuration that refers to `@s/n@2` alone gives the key `@s/n` the
\* version `2`, and one that refers to `@s/n` alone gives `@s/n` the
\* version '*'.
C2_ScopedIdentifierSplit ==
  (strategy \in DeclarativeImpls \cup {"declarativeLoader"}
     /\ manifestWrites > 0 /\ before.state = "absent") =>
    /\ ExtractTrimmed(configFile.config) = <<ScopedVersioned>> =>
         /\ Scoped \in DOMAIN WrittenDependencies
         /\ WrittenDependencies[Scoped] = <<"2">>
    /\ ExtractTrimmed(configFile.config) = <<Scoped>> =>
         /\ Scoped \in DOMAIN WrittenDependencies
         /\ WrittenDependencies[Scoped] = Wildcard

\* an entry of `extends` or `plugins` that names no package
NamesNothing(entry, allowTuple) ==
  \/ entry.t = "junk"
  \/ entry.t = "tuple" /\ ~allowTuple
  \/ Trim(entry.v) = EmptyString

YieldsNoNames(config) ==
  /\ config.extends.t = "str" => Trim(config.extends.v) = EmptyString
  /\ config.extends.t = "arr" =>
       \A i \in 1..Len(config.extends.v) : NamesNothing(config.extends.v[i], FALSE)
  /\ config.plugins.t = "arr" =>
       \A i \in 1..Len(config.plugins.v) : NamesNothing(config.plugins.v[i], TRUE)

\* C3: DeclarativeStrategy.execute on a parsable configuration whose
\* `extends` and `plugins` yield no package name resolves, leaves
\* package.json as it was (absent stays absent) and never starts npm install.
C3_NoDependenciesNoManifest ==
  (strategy \in DeclarativeImpls
     /\ ParseDeclarativeConfigFile(strategy, configFile).ok
     /\ YieldsNoNames(configFile.config)) =>
    /\ pc \in {"idle", "parsing", "resolved"}
    /\ packageJson = before
    /\ manifestWrites = 0
    /\ npmInstallCalls = 0

\* C3's case: blank and non-string entries only, resolved beside an existing manifest
C3_Witness ==
  /\ strategy \in DeclarativeImpls
  /\ pc = "resolved"
  /\ configFile.config.extends = Arr(<<Str(Blank)>>)
  /\ configFile.config.plugins = Arr(<<Junk>>)
  /\ packageJson.state = "json"

\* C4 (as claimed): on a file without extension, content that is YAML but no
\* JSON is parsed (execute does not reject with a parse error), and content
\* that is neither makes execute reject with one error that holds both the
\* JSON parser's and the YAML parser's message.
C4_ExtensionlessJsonThenYaml ==
  (strategy \in DeclarativeImpls /\ configFile.ext = "" /\ pc \notin {"idle", "parsing"}) =>
    /\ configFile.syntax = "yaml" =>
         ~(pc = "rejected" /\ Contains(error, "Failed to parse declarative config file "))
    /\ configFile.syntax = "malformed" =>
         /\ pc = "rejected"
         /\ Contains(error, JsonErrorMessage)
         /\ Contains(error, YamlErrorMessage)

\* C8: ImperativeStrategy.execute without a package.json rejects with an
\* error naming the expected path, starts no npm install and creates no
\* package.json; with one it starts npm install exactly once; it never
\* writes the manifest.
C8_ImperativeNeedsManifest ==
  (strategy = "ImperativeStrategy" /\ pc # "idle") =>
    /\ manifestWrites = 0
    /\ packageJson = before
    /\ before.state = "absent" =>
         /\ pc = "rejected"
         /\ Contains(error, packageJsonPath)
         /\ npmInstallCalls = 0
    /\ before.state # "absent" => npmInstallCalls = 1

\* C8's case: the call was made in a directory without package.json
C8_Witness ==
  /\ strategy = "ImperativeStrategy"
  /\ pc = "rejected"
  /\ before.state = "absent"

(***************************************************************************)
(* The Linter as a state machine.  lint() is an async method: the check    *)
(* for the configuration file runs when it is called, loadConfig and the   *)
(* per-commit lintLib calls are awaited, and the per-commit promises       *)
(* settle in any order before Promise.all resolves.                        *)
(***************************************************************************)
\* no strategy is at work
StrategiesIdle ==
  /\ RepeatIdle
  /\ allowForceInstall = "false"
  /\ npmExit = NoExit
  /\ strategy = "ImperativeStrategy"
  /\ configFile = ScriptFile
  /\ packageJson = AbsentFile
  /\ before = AbsentFile
  /\ pc = "unused"
  /\ dependenciesToInstall = <<>>
  /\ packageJsonData = DefaultPackageJsonData
  /\ npmInstallCalls = 0
  /\ manifestWrites = 0
  /\ warnings = {}
  /\ error = <<>>

\* runLintingProcess is called by runx with at least one commit and with the
\* path prepareEnvironmentAndGetConfigPath returned: null or a file that exists
LinterInit ==
  /\ linterImpl \in Linters
  /\ caller \in IF linterImpl = LinterResultImpl
                THEN {"direct", "runLintingProcess"} ELSE {"direct"}
  /\ commitsToLint \in IF caller = "runLintingProcess"
                       THEN CommitLists \ {<<>>} ELSE CommitLists
  /\ configPathInput \in IF caller = "runLintingProcess"
                         THEN {Null, ExistingConfigPath} ELSE ConfigPathInputs
  /\ helpUrlInput \in HelpUrlInputs
  /\ failOnWarnings \in IF caller = "runLintingProcess" THEN FailInputs ELSE {""}
  /\ failOnErrors \in IF caller = "runLintingProcess" THEN FailInputs ELSE {""}
  /\ lpc = "idle"
  /\ loadedConfig = NotLoaded
  /\ settled = <<>>
  /\ completionOrder = <<>>
  /\ result = NoResult
  /\ lintError = <<>>
  /\ coreWarnings = {}
  /\ runOutput = <<>>
  /\ setFailedCalls = 0
  /\ runLog = {}
  /\ StrategiesIdle
  /\ RunIdle

\* lint() up to its first await: the early return for an empty commit list,
\* then loadEffectiveConfig up to `await loadConfig(...)`
LintBegins ==
  /\ lpc = "idle"
  /\ IF linterImpl = LinterResultImpl /\ commitsToLint = <<>>
     THEN /\ lpc' = "resolved"
          /\ result' = EmptyLinterResult
          /\ coreWarnings' = {<<"Linter: No commits provided to lint.">>}
          /\ UNCHANGED lintError
     ELSE LET loading == loadEffectiveConfig(linterImpl, configPathInput)
          IN  /\ lpc' = IF loading.ok THEN "loading" ELSE "rejected"
              /\ lintError' = loading.message
              /\ coreWarnings' = loading.warned
              /\ UNCHANGED result
  /\ UNCHANGED <<linterImpl, caller, commitsToLint, configPathInput,
                 helpUrlInput, failOnWarnings, failOnErrors, loadedConfig,
                 settled, completionOrder, runOutput, setFailedCalls, runLog>>
  /\ UNCHANGED strategyVars
  /\ UNCHANGED runVars
  /\ UNCHANGED repeatVars

\* linter.lint() called on a Linter directly
Lint ==
  /\ caller = "direct"
  /\ LintBegins

\* runLintingProcess up to `await linter.lint()`
RunLintingProcess ==
  /\ caller = "runLintingProcess"
  /\ LintBegins

\* loadConfig resolves; the map over the commits starts one lintLib call each
ConfigLoaded ==
  /\ lpc = "loading"
  /\ lpc' = "linting"
  /\ loadedConfig' = loadEffectiveConfig(linterImpl, configPathInput).config
  /\ UNCHANGED <<linterImpl, caller, commitsToLint, configPathInput,
                 helpUrlInput, failOnWarnings, failOnErrors, settled,
                 completionOrder, result, lintError, coreWarnings, runOutput,
                 setFailedCalls, runLog>>
  /\ UNCHANGED strategyVars
  /\ UNCHANGED runVars
  /\ UNCHANGED repeatVars

\* loadConfig rejects for the configuration file it was given (a module the
\* file extends cannot be resolved, say), and lint() with it
ConfigLoadFails ==
  /\ lpc = "loading"
  /\ configPathInput # Null
  /\ ConfigFileExists(configPathInput)
  /\ lpc' = "rejected"
  /\ lintError' = <<"Cannot find module \"p\" from \"", configPathInput, "\"">>
  /\ UNCHANGED <<linterImpl, caller, commitsToLint, configPathInput,
                 helpUrlInput, failOnWarnings, failOnErrors, loadedConfig,
                 settled, completionOrder, result, coreWarnings, runOutput,
                 setFailedCalls, runLog>>
  /\ UNCHANGED strategyVars
  /\ UNCHANGED runVars
  /\ UNCHANGED repeatVars

\* one per-commit promise settles
LintSettles ==
  /\ lpc = "linting"
  /\ \E i \in DOMAIN commitsToLint \ DOMAIN settled :
       /\ settled' =
            [j \in DOMAIN settled \cup {i} |->
               IF j = i
               THEN LintedItem(linterImpl, commitsToLint[i], loadedConfig.rules)
               ELSE settled[j]]
       /\ completionOrder' = Append(completionOrder, i)
  /\ UNCHANGED <<linterImpl, caller, commitsToLint, configPathInput,
                 helpUrlInput, failOnWarnings, failOnErrors, lpc, loadedConfig,
                 result, lintError, coreWarnings, runOutput, setFailedCalls,
                 runLog>>
  /\ UNCHANGED strategyVars
  /\ UNCHANGED runVars
  /\ UNCHANGED repeatVars

\* Promise.all resolves and lint() builds its result
LintResolves ==
  /\ lpc = "linting"
  /\ DOMAIN settled = DOMAIN commitsToLint
  /\ lpc' = "resolved"
  /\ result' =
       IF linterImpl = LinterResultImpl
       THEN LinterResult(PromiseAll(settled, completionOrder), loadedConfig,
                         FinalHelpUrl(helpUrlInput, loadedConfig))
       ELSE Results(PromiseAll(settled, completionOrder),
                    FinalHelpUrl(helpUrlInput, loadedConfig))
  /\ UNCHANGED <<linterImpl, caller, commitsToLint, configPathInput,
                 helpUrlInput, failOnWarnings, failOnErrors, loadedConfig,
                 settled, completionOrder, lintError, coreWarnings, runOutput,
                 setFailedCalls, runLog>>
  /\ UNCHANGED strategyVars
  /\ UNCHANGED runVars
  /\ UNCHANGED repeatVars

\* some linted commit has a warning
SomeWarning(lintedCommits) ==
  \E i \in DOMAIN lintedCommits : Len(lintedCommits[i].lintResult.warnings) > 0

\* every linted commit is valid and has no warning
AllClean(lintedCommits) ==
  \A i \in DOMAIN lintedCommits :
    /\ lintedCommits[i].lintResult.valid
    /\ Len(lintedCommits[i].lintResult.warnings) = 0

\* what runLintingProcess reports for a result: whether it calls setFailed, and
\* the kinds of message it emits
Report(r, failOnWarns, failOnErrs) ==
  IF r.hasErrors
  THEN IF failOnErrs
       THEN [failed |-> TRUE, log |-> {"setFailed: linter failed"}]
       ELSE [failed |-> FALSE,
             log |-> {"warning: errors, but failOnErrors is false",
                      "info: passed despite errors"}]
  ELSE IF r.hasOnlyWarnings
  THEN IF failOnWarns
       THEN [failed |-> TRUE, log |-> {"setFailed: warnings"}]
       ELSE [failed |-> FALSE, log |-> {"warning: warnings"}]
  ELSE IF r.formattedResults # <<>> /\ SomeWarning(r.lintedCommits)
  THEN [failed |-> FALSE, log |-> {"info: some warnings"}]
  ELSE IF r.formattedResults = <<>> /\ AllClean(r.lintedCommits)
  THEN [failed |-> FALSE, log |-> {"info: lint free"}]
  ELSE [failed |-> FALSE, log |-> {"info: results"}]

\* runLintingProcess after `await linter.lint()`
ReportOutcome ==
  /\ caller = "runLintingProcess"
  /\ lpc = "resolved"
  /\ lpc' = "reported"
  /\ runOutput' = [i \in DOMAIN result.lintedCommits |->
                     mapResultOutput(result.lintedCommits[i])]
  /\ LET report == Report(result, getFailOnWarnings(failOnWarnings),
                          getFailOnErrors(failOnErrors))
     IN  /\ setFailedCalls' = IF report.failed THEN 1 ELSE 0
         /\ runLog' = report.log
  /\ UNCHANGED <<linterImpl, caller, commitsToLint, configPathInput,
                 helpUrlInput, failOnWarnings, failOnErrors, loadedConfig,
                 settled, completionOrder, result, lintError, coreWarnings>>
  /\ UNCHANGED strategyVars
  /\ UNCHANGED runVars
  /\ UNCHANGED repeatVars

LinterNext ==
  \/ Lint
  \/ RunLintingProcess
  \/ ConfigLoaded
  \/ ConfigLoadFails
  \/ LintSettles
  \/ LintResolves
  \/ ReportOutcome

LinterSpec == LinterInit /\ [][LinterNext]_vars

(***************************************************************************)
(* Properties of the Linter, of Results and of runLintingProcess.          *)
(***************************************************************************)
\* lint() has resolved; runLintingProcess may have reported since
Resolved == lpc \in {"resolved", "reported"}

\* the linted items of a result, whichever its shape
ItemsOf(r) == IF r.kind = "Results" THEN r.items ELSE r.lintedCommits

\* the lint outcome and the message of item i of a result
OutcomeAt(r, i) ==
  IF r.kind = "Results"
  THEN [valid |-> r.items[i].valid, errors |-> r.items[i].errors,
        warnings |-> r.items[i].warnings, input |-> r.items[i].input]
  ELSE r.lintedCommits[i].lintResult

MessageAt(r, i) ==
  IF r.kind = "Results" THEN r.items[i].input ELSE r.lintedCommits[i].message

\* C5 A Linter constructed with a configuration path that does not exist
\* always fails on lint() with an error naming that path, for every commit
\* list, the empty one included; it never goes on with the default rule-set
\* and never produces a result.
C5_MissingConfigPathRejects ==
  (configPathInput = MissingConfigPath /\ lpc \notin {"unused", "idle"})
    => /\ lpc = "rejected"
       /\ Contains(lintError, MissingConfigPath)
       /\ result = NoResult
       /\ loadedConfig.rules # ConventionalRules

\* C6 With a null configuration path lint() does not fail for lack of a path:
\* the rules come from @commitlint/config-conventional and every commit is
\* evaluated against them.
C6_NullPathUsesDefaultRules ==
  (configPathInput = Null /\ lpc \notin {"unused", "idle"})
    => /\ lpc # "rejected"
       /\ lpc = "linting" => loadedConfig.rules = ConventionalRules
       /\ Resolved =>
            /\ Len(ItemsOf(result)) = Len(commitsToLint)
            /\ \A i \in DOMAIN commitsToLint :
                 OutcomeAt(result, i) =
                   lintLib(commitsToLint[i].message, ConventionalRules)

\* C7 Whatever the order in which the per-commit evaluations complete, the
\* result of lint() has exactly one item per input commit and item i carries
\* the hash and the message of input commit i.
C7_InputOrderPreserved ==
  Resolved =>
    /\ Len(ItemsOf(result)) = Len(commitsToLint)
    /\ \A i \in DOMAIN commitsToLint :
         /\ ItemsOf(result)[i].hash = commitsToLint[i].hash
         /\ MessageAt(result, i) = commitsToLint[i].message

\* lint() resolved after the second of two different commits settled first
C7_Witness ==
  /\ lpc = "resolved"
  /\ result.kind = "Results"
  /\ Len(commitsToLint) = 2
  /\ commitsToLint[1].hash # commitsToLint[2].hash
  /\ commitsToLint[1].message # commitsToLint[2].message
  /\ completionOrder = <<2, 1>>

\* the error and the warning entries of the settled evaluations, one element
\* per entry
ErrorEntries ==
  {<<i, j>> \in (DOMAIN settled) \X (1..Len(RuleNames)) :
     j \in DOMAIN settled[i].errors}

WarningEntries ==
  {<<i, j>> \in (DOMAIN settled) \X (1..Len(RuleNames)) :
     j \in DOMAIN settled[i].warnings}

\* C9 For every list of lint outcomes given to Results: checkedCount is the
\* number of outcomes, errorCount and warningCount are the sums of the
\* outcomes' errors and warnings lengths, hasErrors is true exactly when there
\* is an error, hasOnlyWarnings exactly when there is no error and there is a
\* warning, the two flags are never both true, and the empty list gives zero
\* counts and both flags false.
C9_ResultsCountsAndFlags ==
  (lpc = "resolved" /\ result.kind = "Results") =>
    /\ checkedCount(result) = Cardinality(DOMAIN settled)
    /\ result.errorCount = Cardinality(ErrorEntries)
    /\ result.warningCount = Cardinality(WarningEntries)
    /\ hasErrors(result) <=> ErrorEntries # {}
    /\ hasOnlyWarnings(result) <=> (ErrorEntries = {} /\ WarningEntries # {})
    /\ ~(hasErrors(result) /\ hasOnlyWarnings(result))
    /\ commitsToLint = <<>> =>
         /\ checkedCount(result) = 0
         /\ result.errorCount = 0
         /\ result.warningCount = 0
         /\ ~hasErrors(result)
         /\ ~hasOnlyWarnings(result)

\* a Results over two outcomes that hold errors and warnings
C9_Witness ==
  /\ lpc = "resolved"
  /\ result.kind = "Results"
  /\ checkedCount(result) = 2
  /\ result.errorCount > 2
  /\ result.warningCount > 0

\* C10 With the `fail-on-warnings` input 'true' the run is marked failed
\* whenever a linted commit has a warning, for every value of `fail-on-errors`
\* and whether or not commits have errors too.
C10_FailOnWarningsFails ==
  (lpc = "reported" /\ failOnWarnings = "true"
     /\ SomeWarning(result.lintedCommits))
    => setFailedCalls > 0

\* C11 With the `fail-on-errors` input 'false', lint outcomes that contain
\* errors never mark the run failed: runLintingProcess passes with a warning
\* message and does not call setFailed.  With the input unset or any value
\* other than 'false', every run whose outcomes contain an error is marked
\* failed.
C11_FailOnErrorsDecides ==
  (lpc = "reported" /\ \E i \in DOMAIN result.lintedCommits :
                         Len(result.lintedCommits[i].lintResult.errors) > 0)
    => IF failOnErrors = "false"
       THEN /\ setFailedCalls = 0
            /\ "warning: errors, but failOnErrors is false" \in runLog
       ELSE setFailedCalls > 0

\* a run with `fail-on-errors` 'false' reported outcomes that hold an error
C11_Witness ==
  /\ lpc = "reported"
  /\ failOnErrors = "false"
  /\ result.hasErrors
  /\ setFailedCalls = 0

(***************************************************************************)
(* runx as a state machine.  It awaits the search for a configuration      *)
(* file, the strategy, the fetcher and the linting; the strategy and the   *)
(* Linter take their own steps meanwhile.  Every error is caught by the    *)
(* try/catch of runx, which calls setFailed.                               *)
(***************************************************************************)
\* the inputs `fail-on-warnings` and `fail-on-errors` keep the defaults of
\* action.yml and `help-url` is not set
RunInit ==
  /\ rpc = "start"
  /\ environment \in Environments
  /\ configFileInput \in
       IF environment = "ready" THEN ConfigFileInputs
       ELSE {[given |-> FALSE, exists |-> FALSE, file |-> NoFile]}
  /\ commitDepthInput \in
       IF environment = "ready" THEN CommitDepthInputs ELSE {<<>>}
  /\ eventName \in IF environment = "ready" THEN EventNames ELSE {"push"}
  /\ searchResult = NotSearched
  /\ resolvedConfigPath = NotResolved
  /\ eventCommits = <<>>
  /\ runWarnings = {}
  /\ runError = <<>>
  /\ payload = NoPayload
  /\ apiCall = NotCalled
  /\ fetchCalls = 0
  /\ allowForceInstall \in
       IF environment = "ready" THEN {"true", "false"} ELSE {"false"}
  /\ npmExit = NoExit
  /\ packageJson \in {AbsentFile, JsonFile(RunManifest)}
  /\ configFileInput.file.name = PackageJsonName => packageJson # AbsentFile
  /\ strategy = "ImperativeStrategy"
  /\ configFile = ScriptFile
  /\ RepeatIdle
  /\ before = packageJson
  /\ pc = "unused"
  /\ dependenciesToInstall = <<>>
  /\ packageJsonData = DefaultPackageJsonData
  /\ npmInstallCalls = 0
  /\ manifestWrites = 0
  /\ warnings = {}
  /\ error = <<>>
  /\ linterImpl = LinterResultImpl
  /\ caller = "runLintingProcess"
  /\ commitsToLint = <<>>
  /\ configPathInput = Null
  /\ helpUrlInput = ""
  /\ failOnWarnings = "false"
  /\ failOnErrors = "true"
  /\ lpc = "unused"
  /\ loadedConfig = NotLoaded
  /\ settled = <<>>
  /\ completionOrder = <<>>
  /\ result = NoResult
  /\ lintError = <<>>
  /\ coreWarnings = {}
  /\ runOutput = <<>>
  /\ setFailedCalls = 0
  /\ runLog = {}

\* a variant of CriticalError that hands the message on as it is
UnprefixedError(message) == message

\* createCriticalErrorHandler('Critical error in commitlint action execution')
CriticalError(message) ==
  <<"Commit linter failed:\n\n", "Critical error in commitlint action execution",
    "\nError: ">> \o message

\* a variant of RunFails after which runx goes on to fetch the commits
RunGoesOn(message) ==
  /\ rpc' = "fetching"
  /\ UNCHANGED <<runError, setFailedCalls>>

\* the catch of runx
RunFails(message) ==
  /\ rpc' = "failed"
  /\ runError' = CriticalError(message)
  /\ setFailedCalls' = setFailedCalls + 1

\* prepareEnvironmentAndGetConfigPath once a file is resolved: the strategy is
\* selected and executed, or the type of the file is unknown
UseConfigFile(file) ==
  /\ resolvedConfigPath' = [found |-> TRUE, file |-> file]
  /\ IF SelectStrategy(file.name) = "none"
     THEN /\ RunFails(<<"Could not determine a valid configuration type for ">>
                      \o file.name)
          /\ UNCHANGED <<allowForceInstall, npmExit, strategy, configFile, pc>>
     ELSE /\ rpc' = "preparing"
          /\ strategy' = SelectStrategy(file.name)
          /\ configFile' = [ext |-> toLowerCase(pathExtname(file.name)),
                            syntax |-> file.syntax, config |-> file.config]
          /\ pc' = "idle"
          /\ UNCHANGED <<runError, setFailedCalls>>

\* runx from 'Fetching Commits' on: the fetcher is called, or there is none
\* and no commit is linted
StartFetching(emitted) ==
  IF getCommitFetcher(eventName) # Null
  THEN /\ rpc' = "fetching"
       /\ runWarnings' = emitted
       /\ fetchCalls' = fetchCalls + 1
  ELSE /\ rpc' = "done"
       /\ runWarnings' = emitted \cup {"No suitable commit fetcher found",
                                       "No commits found to lint."}
       /\ UNCHANGED fetchCalls

\* a variant of UserFileFound that does not look whether the file exists
UserFileGiven(input) == input.given

\* userSpecifiedConfigFile && fsExistsSync(absoluteUserPath)
UserFileFound(input) == input.given /\ input.exists

\* runx up to its first await
Runx ==
  /\ rpc = "start"
  /\ IF environment # "ready"
     THEN /\ RunFails(IF environment = "no token"
                      THEN <<"Input required and not supplied: token">>
                      ELSE <<"GITHUB_WORKSPACE is not defined.">>)
          /\ UNCHANGED <<runWarnings, resolvedConfigPath, strategy, configFile, pc>>
     ELSE IF UserFileFound(configFileInput)
     THEN /\ UseConfigFile(configFileInput.file)
          /\ UNCHANGED runWarnings
     ELSE /\ rpc' = "searching"
          /\ runWarnings' =
               IF configFileInput.given
               THEN {"User-specified configuration file not found"}
               ELSE {}
          /\ UNCHANGED <<runError, setFailedCalls, resolvedConfigPath, strategy,
                         configFile, pc>>
  /\ UNCHANGED <<environment, configFileInput, commitDepthInput, eventName,
                 searchResult, eventCommits, payload, apiCall, fetchCalls>>
  /\ UNCHANGED <<allowForceInstall, npmExit, packageJson, before, dependenciesToInstall,
                 packageJsonData, npmInstallCalls, manifestWrites, warnings,
                 error>>
  /\ UNCHANGED <<linterImpl, caller, commitsToLint, configPathInput,
                 helpUrlInput, failOnWarnings, failOnErrors, lpc, loadedConfig,
                 settled, completionOrder, result, lintError, coreWarnings,
                 runOutput, runLog>>
  /\ UNCHANGED repeatVars

\* explorer.search returns or throws, and findCommitlintConfig with it
SearchReturns ==
  /\ rpc = "searching"
  /\ \E search \in SearchOutcomes :
       /\ search.file.name = PackageJsonName => packageJson # AbsentFile
       /\ searchResult' = search
       /\ LET emitted ==
                IF search.outcome = "throws"
                THEN runWarnings \cup {"Error searching for commitlint configuration"}
                ELSE runWarnings
          IN  IF findCommitlintConfig(search).found
              THEN /\ UseConfigFile(findCommitlintConfig(search).file)
                   /\ runWarnings' = emitted
                   /\ UNCHANGED fetchCalls
              ELSE /\ StartFetching(emitted)
                   /\ UNCHANGED <<resolvedConfigPath, runError, setFailedCalls,
                                  strategy, configFile, pc>>
  /\ UNCHANGED <<environment, configFileInput, commitDepthInput, eventName,
                 eventCommits, payload, apiCall>>
  /\ UNCHANGED <<allowForceInstall, npmExit, packageJson, before, dependenciesToInstall,
                 packageJsonData, npmInstallCalls, manifestWrites, warnings,
                 error>>
  /\ UNCHANGED <<linterImpl, caller, commitsToLint, configPathInput,
                 helpUrlInput, failOnWarnings, failOnErrors, lpc, loadedConfig,
                 settled, completionOrder, result, lintError, coreWarnings,
                 runOutput, runLog>>
  /\ UNCHANGED repeatVars

\* strategy.execute resolves or rejects
StrategyReturns ==
  /\ rpc = "preparing"
  /\ pc \in {"resolved", "rejected"}
  /\ IF pc = "rejected"
     THEN /\ RunFails(error)
          /\ UNCHANGED <<runWarnings, fetchCalls>>
     ELSE /\ StartFetching(runWarnings)
          /\ UNCHANGED <<runError, setFailedCalls>>
  /\ UNCHANGED <<environment, configFileInput, commitDepthInput, eventName,
                 searchResult, resolvedConfigPath, eventCommits, payload,
                 apiCall>>
  /\ UNCHANGED strategyVars
  /\ UNCHANGED <<linterImpl, caller, commitsToLint, configPathInput,
                 helpUrlInput, failOnWarnings, failOnErrors, lpc, loadedConfig,
                 settled, completionOrder, result, lintError, coreWarnings,
                 runOutput, runLog>>
  /\ UNCHANGED repeatVars

\* fetchCommits resolves or rejects; the commits are cut to the depth and
\* runLintingProcess is called on them if there are any.  The Linter is given
\* the resolved path, a file that exists, or null.
FetchReturns ==
  /\ rpc = "fetching"
  /\ \E given \in PayloadsOf(getCommitFetcher(eventName)), api \in ApiOutcomes :
       LET fetched == fetchCommits(getCommitFetcher(eventName), given, api)
           limited == LimitCommits(getCommitDepth(commitDepthInput),
                                   fetched.commits)
       IN  /\ payload' = given
           /\ apiCall' = fetched.api
           /\ IF ~fetched.ok
              THEN /\ RunFails(fetched.message)
                   /\ UNCHANGED <<eventCommits, runWarnings, commitsToLint,
                                  configPathInput, lpc>>
              ELSE /\ eventCommits' = fetched.commits
                   /\ IF limited # <<>>
                      THEN /\ rpc' = "linting"
                           /\ commitsToLint' = limited
                           /\ configPathInput' =
                                IF resolvedConfigPath.found
                                THEN ExistingConfigPath
                                ELSE Null
                           /\ lpc' = "idle"
                           /\ UNCHANGED runWarnings
                      ELSE /\ rpc' = "done"
                           /\ runWarnings' =
                                runWarnings \cup {"No commits found to lint."}
                           /\ UNCHANGED <<commitsToLint, configPathInput, lpc>>
                   /\ UNCHANGED <<runError, setFailedCalls>>
  /\ UNCHANGED <<environment, configFileInput, commitDepthInput, eventName,
                 searchResult, resolvedConfigPath, fetchCalls>>
  /\ UNCHANGED strategyVars
  /\ UNCHANGED <<linterImpl, caller, helpUrlInput, failOnWarnings,
                 failOnErrors, loadedConfig, settled, completionOrder, result,
                 lintError, coreWarnings, runOutput, runLog>>
  /\ UNCHANGED repeatVars

\* runLintingProcess returns or throws
LintingReturns ==
  /\ rpc = "linting"
  /\ lpc \in {"reported", "rejected"}
  /\ IF lpc = "rejected"
     THEN RunFails(lintError)
     ELSE /\ rpc' = "done"
          /\ UNCHANGED <<runError, setFailedCalls>>
  /\ UNCHANGED <<environment, configFileInput, commitDepthInput, eventName,
                 searchResult, resolvedConfigPath, eventCommits, runWarnings,
                 payload, apiCall, fetchCalls>>
  /\ UNCHANGED strategyVars
  /\ UNCHANGED <<linterImpl, caller, commitsToLint, configPathInput,
                 helpUrlInput, failOnWarnings, failOnErrors, lpc, loadedConfig,
                 settled, completionOrder, result, lintError, coreWarnings,
                 runOutput, runLog>>
  /\ UNCHANGED repeatVars

RunNext ==
  \/ Runx
  \/ SearchReturns
  \/ ExecuteDeclarative
  \/ ParseFails
  \/ ParseSucceeds
  \/ ReadManifest
  \/ WriteManifest
  \/ NpmInstallExits
  \/ ExecuteImperative
  \/ StrategyReturns
  \/ FetchReturns
  \/ RunLintingProcess
  \/ ConfigLoaded
  \/ ConfigLoadFails
  \/ LintSettles
  \/ LintResolves
  \/ ReportOutcome
  \/ LintingReturns

RunSpec == RunInit /\ [][RunNext]_vars

(***************************************************************************)
(* Properties of the runner.                                               *)
(***************************************************************************)
\* the fetcher has returned, or there was none
CommitsResolved ==
  \/ rpc \in {"linting", "done"}
  \/ rpc = "failed" /\ lpc # "unused"

\* C12 `commit-depth` is the most commits linted: when the input parses to an
\* integer N (0 and negative values, clamped to 0, included) at most N commits
\* are passed to the linter; when it is empty or not a number every fetched
\* commit is linted.
C12_CommitDepthIsMaximum ==
  CommitsResolved =>
    IF getCommitDepth(commitDepthInput).isNull
    THEN commitsToLint = eventCommits
    ELSE Len(commitsToLint) <= getCommitDepth(commitDepthInput).value

\* the file names the README lists as supported
DocumentedNames ==
  {Commitlintrc, CommitlintrcJson, CommitlintrcYml, CommitlintConfigJs,
   CommitlintConfigMjs, CommitlintConfigCts, PackageJsonName}

\* C14 Every documented configuration file name is accepted by the runner:
\* for the extensionless `.commitlintrc` and for a `.cts` file
\* prepareEnvironmentAndGetConfigPath selects a strategy instead of failing
\* with the 'could not determine a valid configuration type' error.
C14_DocumentedNamesAccepted ==
  (resolvedConfigPath.found /\ resolvedConfigPath.file.name \in DocumentedNames)
    => ~Contains(runError, "Could not determine a valid configuration type for ")

\* C15 A script configuration whose path ends in the bare `.js` extension is
\* rejected with an error that names the `.mjs` and `.cjs` extensions; no run
\* with such a file goes on to installation or linting.
C15_BareJsRejected ==
  (resolvedConfigPath.found /\ pathExtname(resolvedConfigPath.file.name) = ".js")
    => /\ rpc = "failed"
       /\ Contains(runError,
            "JavaScript configuration files must use '.mjs' or '.cjs' extension.")
       /\ npmInstallCalls = 0
       /\ lpc = "unused"

\* C16 A user-specified configuration path that exists is the one used and no
\* search is performed; one that does not exist never fails the run by
\* itself: a warning is emitted, the search is performed and its result (or
\* no configuration) is used.
C16_UserPathPrecedence ==
  (configFileInput.given /\ rpc # "start") =>
    IF configFileInput.exists
    THEN /\ resolvedConfigPath = [found |-> TRUE, file |-> configFileInput.file]
         /\ searchResult = NotSearched
    ELSE /\ "User-specified configuration file not found" \in runWarnings
         /\ rpc = "searching" => (searchResult = NotSearched /\ runError = <<>>)
         /\ rpc # "searching" =>
              /\ searchResult # NotSearched
              /\ resolvedConfigPath = findCommitlintConfig(searchResult)

\* a run whose `config-file` names no file lints with the file the search found
C16_Witness ==
  /\ configFileInput.given
  /\ ~configFileInput.exists
  /\ searchResult.outcome = "found"
  /\ resolvedConfigPath.found
  /\ rpc = "linting"

\* C17 A configuration file that is found but empty is not treated as no
\* configuration: the run fails with an empty-config error and never goes on
\* to lint with the default rule-set.
C17_EmptyConfigFails ==
  (searchResult.outcome = "found" /\ searchResult.isEmpty)
    => /\ rpc = "failed"
       /\ lpc = "unused"

\* C18 When no commit is resolved from the event (the fetcher returns an
\* empty list, or there is no fetcher for the event), the run is marked
\* failed.
C18_NoCommitsFails ==
  (CommitsResolved /\ eventCommits = <<>>) => setFailedCalls > 0

\* C19 An error raised while the configuration file is searched for or parsed
\* during automatic detection makes the run fail; the run never continues
\* with the default rule-set after it.
C19_SearchErrorFails ==
  searchResult.outcome = "throws"
    => /\ rpc = "failed"
       /\ "Error searching for commitlint configuration" \notin runWarnings
       /\ lpc = "unused"

\* C13 With the `allow-force-install` input 'true', dependency preparation
\* overwrites an existing package.json instead of failing on it and runs the
\* installer with `--force`; with 'false' the installer runs without it.
C13_ForceInstallHonoured ==
  /\ (allowForceInstall = "true" /\ pc = "rejected")
       => ~Contains(error, " already exists.")
  /\ npmInstallCalls > 0 =>
       (Contains(InstallCommand(strategy, allowForceInstall = "true"), "--force")
          <=> allowForceInstall = "true")

\* a strategy was rejected because its installer exited with a status other
\* than 0
InstallerFailed ==
  /\ strategy \in DeclarativeImpls \cup {"ImperativeStrategy"}
  /\ pc = "rejected"
  /\ npmExit.status # 0

ReferencedEntries(config) == ExtendsArray(config) \o PluginsArray(config)

\* whether the k-th of these entries names a package
NamesPackage(config, k) ==
  ~NamesNothing(ReferencedEntries(config)[k], k > Len(ExtendsArray(config)))

\* the name an entry stands for, as written or without surrounding blanks
NameOf(entry, trimmed) == IF trimmed THEN Trim(entry.v) ELSE entry.v

\* the entries that name a package no earlier entry names
FirstOccurrences(config, trimmed) ==
  {k \in DOMAIN ReferencedEntries(config) :
     /\ NamesPackage(config, k)
     /\ \A j \in 1..(k - 1) :
          NamesPackage(config, j) =>
            NameOf(ReferencedEntries(config)[j], trimmed)
              # NameOf(ReferencedEntries(config)[k], trimmed)}

\* whether a list is these names in the order of the entries
IsOrderedNames(names, config, trimmed) ==
  /\ Len(names) = Cardinality(FirstOccurrences(config, trimmed))
  /\ \A i \in DOMAIN names :
       \E k \in FirstOccurrences(config, trimmed) :
         /\ Cardinality({j \in FirstOccurrences(config, trimmed) : j < k}) = i - 1
         /\ names[i] = NameOf(ReferencedEntries(config)[k], trimmed)

\* execute has parsed the configuration and extracted the names
Extracted ==
  /\ strategy \in DeclarativeImpls
  /\ pc \notin {"idle", "parsing"}
  /\ ParseDeclarativeConfigFile(strategy, configFile).ok

RequiredKeys ==
  {dependenciesToInstall[i] : i \in {j \in 1..Len(dependenciesToInstall) :
                                       ~IsLocal(dependenciesToInstall[j])}}

\* execute has written package.json over one that was there and parsed
MergedIntoExisting ==
  /\ strategy \in DeclarativeImpls
  /\ manifestWrites > 0
  /\ before.state = "json"

\* C21 When DeclarativeStrategy.execute merges into an existing package.json,
\* every top-level field that was there (other than `dependencies`) has the
\* same value in the written file, every entry of `dependencies` that was
\* there is still there with the same value, and nothing is added but the
\* newly required dependency keys.
C21_MergePreservesFields ==
  MergedIntoExisting =>
    /\ \A k \in DOMAIN before.data.top :
         /\ k \in DOMAIN packageJson.data.top
         /\ packageJson.data.top[k] = before.data.top[k]
    /\ packageJson.data.devDependencies = before.data.devDependencies
    /\ \A k \in DOMAIN before.data.dependencies :
         /\ k \in DOMAIN packageJson.data.dependencies
         /\ packageJson.data.dependencies[k] = before.data.dependencies[k]
    /\ DOMAIN packageJson.data.top \subseteq DOMAIN before.data.top
    /\ DOMAIN packageJson.data.dependencies \subseteq
         (DOMAIN before.data.dependencies) \cup RequiredKeys

\* execute found a package.json that cannot be read or parsed, and is past
\* the attempt to read it
ReadUnparsable ==
  /\ strategy \in DeclarativeImpls
  /\ before.state = "unparsable"
  /\ dependenciesToInstall # <<>>
  /\ pc \in {"writing", "installing", "resolved", "rejected"}

\* C22 When the existing package.json cannot be read or parsed,
\* DeclarativeStrategy.execute does not abort: it emits a warning, goes on
\* with the default manifest (placeholder name, version, description and
\* private, no other dependency) to which the extracted names are added,
\* writes it and starts the installer.
C22_UnparsableManifestRecovered ==
  ReadUnparsable =>
    /\ "manifest-unreadable" \in warnings
    /\ packageJsonData.top = DefaultPackageJsonData.top
    /\ packageJsonData.devDependencies = NoMap
    /\ DOMAIN packageJsonData.dependencies = RequiredKeys
    /\ \A k \in RequiredKeys : packageJsonData.dependencies[k] = Wildcard
    /\ pc = "rejected" =>
         \/ Contains(error, "Failed to write package.json at ")
         \/ Contains(error, "npm install failed in ")
    /\ pc \in {"installing", "resolved"} \/ npmExit.status # 0 =>
         /\ manifestWrites = 1
         /\ npmInstallCalls = 1
         /\ packageJson = JsonFile(packageJsonData)

\* execute resolved beside a package.json that could not be parsed
C22_Witness ==
  /\ ReadUnparsable
  /\ pc = "resolved"
  /\ "manifest-unreadable" \in warnings
  /\ npmInstallCalls = 1
  /\ packageJson.state = "json"
  /\ Plain \in DOMAIN packageJson.data.dependencies

(***************************************************************************)
(* The order of the steps of DeclarativeStrategy.execute.                  *)
(***************************************************************************)
\* execute rejected at the parse of the configuration file
ParseRejected ==
  pc = "rejected" /\ Contains(error, "Failed to parse declarative config file ")

\* execute rejected at the write of package.json
WriteRejected ==
  pc = "rejected" /\ Contains(error, "Failed to write package.json at ")

\* where execute stands when the installer has been started, and when not
InstallerAfterWrite ==
  strategy \in DeclarativeImpls =>
    /\ npmInstallCalls > 0 =>
         /\ manifestWrites = 1
         /\ packageJson = JsonFile(packageJsonData)
         /\ dependenciesToInstall = ExtractDependencies(strategy, configFile.config)
         /\ dependenciesToInstall # <<>>
         /\ ParseDeclarativeConfigFile(strategy, configFile).ok
    /\ ParseRejected =>
         /\ npmInstallCalls = 0
         /\ manifestWrites = 0
         /\ packageJson = before
    /\ WriteRejected =>
         /\ npmInstallCalls = 0
         /\ packageJson = before

\* the step that starts the installer is the one in which the write completes
InstallerStartsAtWrite ==
  (strategy \in DeclarativeImpls /\ npmInstallCalls' > npmInstallCalls) =>
    /\ pc = "writing"
    /\ manifestWrites' = manifestWrites + 1
    /\ packageJson' = JsonFile(packageJsonData)
    /\ npmInstallCalls' = 1

\* C26 In DeclarativeStrategy.execute the steps happen in the order parse,
\* extract, write manifest, install: the installer is never started before
\* the write of the manifest has completed, and when the parse of the
\* configuration or the write of the manifest fails it is never started (and
\* when the parse fails the manifest is not touched).
C26_ParseExtractWriteInstall ==
  []InstallerAfterWrite /\ [][InstallerStartsAtWrite]_vars

\* execute was rejected at the write, after the names were extracted
C26_Witness ==
  /\ strategy \in DeclarativeImpls
  /\ WriteRejected
  /\ dependenciesToInstall # <<>>
  /\ npmInstallCalls = 0

(***************************************************************************)
(* Properties of declarativeLoader.                                        *)
(***************************************************************************)
\* an entry that holds a name which is not blank
HoldsName(entry) == entry.t \in {"str", "tuple"} /\ Trim(entry.v) # EmptyString

\* whether `extends` or `plugins` of a configuration refers to a package
ReferencesPackage(config) ==
  \/ config.extends.t = "str" /\ HoldsName(config.extends)
  \/ \E i \in DOMAIN ExtendsArray(config) : HoldsName(ExtendsArray(config)[i])
  \/ \E i \in DOMAIN PluginsArray(config) : HoldsName(PluginsArray(config)[i])

\* the loader was called on a configuration that its base loader parsed
LoaderCalled ==
  /\ strategy = "declarativeLoader"
  /\ pc # "idle"
  /\ BaseLoader(configFile).ok

\* C24 declarativeLoader, when the configuration refers to a package and a
\* package.json is already in the directory, fails with an error that names
\* the directory and leaves the package.json as it is; when the
\* configuration refers to no package it writes no package.json.
C24_StrictCreate ==
  LoaderCalled =>
    /\ (ReferencesPackage(configFile.config) /\ before.state # "absent") =>
         /\ pc = "rejected"
         /\ Contains(error, "File package.json in ")
         /\ Contains(error, workingDirectory)
         /\ packageJson = before
         /\ manifestWrites = 0
    /\ ~ReferencesPackage(configFile.config) =>
         /\ pc = "resolved"
         /\ packageJson = before
         /\ manifestWrites = 0

(***************************************************************************)
(* Properties of the commit fetchers.                                      *)
(***************************************************************************)
\* the push fetcher was called and has returned or thrown
PushFetched ==
  /\ eventName = "push"
  /\ fetchCalls > 0
  /\ rpc # "fetching"

\* C25 PushEventCommitFetcher.fetchCommits, for a push whose `before` and
\* `after` are both there and differ, calls the compare API; when the call
\* fails it rejects with a 'Failed to compare commits via API' error and does
\* not fall back to the commits of the payload.  The commits of the payload
\* are used only when `before` or `after` is missing or they are the same.
C25_PushCompareNoFallback ==
  PushFetched =>
    IF payload.before # "" /\ payload.after # "" /\ payload.before # payload.after
    THEN /\ apiCall.outcome \in {"fails", "returns"}
         /\ apiCall.outcome = "fails" =>
              /\ rpc = "failed"
              /\ Contains(runError, "Failed to compare commits via API for ")
              /\ eventCommits = <<>>
              /\ lpc = "unused"
         /\ apiCall.outcome = "returns" => eventCommits = apiCall.commits
    ELSE /\ apiCall = NotCalled
         /\ Len(eventCommits) = Len(payload.commits.list)
         /\ \A i \in DOMAIN eventCommits :
              /\ eventCommits[i].message = payload.commits.list[i].message
              /\ eventCommits[i].hash \in {payload.commits.list[i].id, "unknown_sha"}

\* the compare call failed for a push whose payload lists a commit
C25_Witness ==
  /\ PushFetched
  /\ payload.before = "5ca1ab1e"
  /\ payload.after = "f005ba11"
  /\ payload.commits.list # <<>>
  /\ apiCall = ApiFails
  /\ rpc = "failed"

(***************************************************************************)
(* The order of the stages of runx.                                        *)
(***************************************************************************)
\* runLintingProcess has been called
LinterInvoked == lpc # "unused"

\* a strategy was selected and its execute called
StrategySelected == pc # "unused"

\* the preparation of the configuration failed
PreparationFailed ==
  /\ rpc = "failed"
  /\ Contains(runError, "Could not determine a valid configuration type for ")

\* what holds of the stages in every state of a run
StagesInOrder ==
  /\ fetchCalls <= 1
  /\ LinterInvoked =>
       /\ fetchCalls = 1
       /\ rpc \in {"linting", "done", "failed"}
       /\ commitsToLint = LimitCommits(getCommitDepth(commitDepthInput), eventCommits)
       /\ StrategySelected => pc = "resolved"
  /\ (pc = "rejected" \/ PreparationFailed) =>
       /\ fetchCalls = 0
       /\ ~LinterInvoked
  /\ fetchCalls = 1 => (StrategySelected => pc = "resolved")

\* the fetcher is called while no commit has been linted, and the Linter is
\* called by the step in which the fetcher returns
StagesStepInOrder ==
  /\ fetchCalls' # fetchCalls =>
       /\ fetchCalls = 0
       /\ ~LinterInvoked
       /\ ~LinterInvoked'
       /\ StrategySelected => pc = "resolved"
  /\ (~LinterInvoked /\ LinterInvoked') => (rpc = "fetching" /\ fetchCalls = 1)

\* C27 In every run of runx the commit fetcher is called at most once and
\* before any commit is linted; no commit is linted before the installation
\* strategy, when one is selected, has finished successfully; and when the
\* preparation of the configuration or the strategy fails, neither the
\* fetcher nor the linter is called in that run.
C27_FetchOnceBeforeLinting ==
  []StagesInOrder /\ [][StagesStepInOrder]_vars

\* a run in which a strategy resolved, the fetcher returned and the commits
\* are being linted
C27_Witness ==
  /\ StrategySelected
  /\ strategy \in DeclarativeImpls
  /\ npmInstallCalls = 1
  /\ pc = "resolved"
  /\ fetchCalls = 1
  /\ lpc = "resolved"

(***************************************************************************)
(* The installation cycle of a run.                                        *)
(***************************************************************************)
\* what holds of the cycle in every state of a run
OneInstallCycle ==
  /\ npmInstallCalls <= 1
  /\ manifestWrites <= 1
  /\ StrategySelected =>
       /\ resolvedConfigPath.found
       /\ strategy = SelectStrategy(resolvedConfigPath.file.name)
  /\ npmExit.status # 0 =>
       /\ npmInstallCalls = 1
       /\ pc = "rejected"
       /\ rpc \in {"preparing", "failed"}
       /\ fetchCalls = 0
       /\ ~LinterInvoked

\* a strategy is selected once and its execute called once, and nothing is
\* installed after the installer failed
OneInstallCycleStep ==
  /\ strategy' # strategy => ~StrategySelected
  /\ StrategySelected =>
       /\ StrategySelected'
       /\ pc # "idle" => pc' # "idle"
       /\ npmInstallCalls' >= npmInstallCalls
  /\ npmExit.status # 0 =>
       /\ npmInstallCalls' = npmInstallCalls
       /\ pc' = "rejected"
       /\ packageJson' = packageJson

ErrorThrown ==
  \/ environment # "ready" /\ rpc # "start"
  \/ resolvedConfigPath.found /\ SelectStrategy(resolvedConfigPath.file.name) = "none"
  \/ pc = "rejected"
  \/ apiCall = ApiFails
  \/ lpc = "rejected"

\* the catch of runx has handled the error, or is about to
ErrorsCaught ==
  /\ ErrorThrown =>
       /\ rpc \in {"preparing", "linting", "failed"}
       /\ rpc = "preparing" => (pc = "rejected" /\ fetchCalls = 0 /\ ~LinterInvoked)
       /\ rpc = "linting" => lpc = "rejected"
  /\ rpc = "failed" =>
       /\ ErrorThrown
       /\ setFailedCalls = 1
       /\ runError # <<>>
       /\ Head(runError) = "Commit linter failed:\n\n"
       /\ pc = "rejected" => (Len(error) <= Len(runError)
                                /\ \A i \in DOMAIN error : Contains(runError, error[i]))

\* the step after an error is the catch, which calls setFailed once, and
\* runx takes no step after it
ErrorsCaughtStep ==
  /\ rpc # "failed"
  /\ ErrorThrown => (rpc' = "failed" /\ setFailedCalls' = 1)
  /\ rpc' = "failed" => setFailedCalls' = setFailedCalls + 1

\* C29 runx never rejects: every error thrown in the pipeline (no token or
\* workspace, a configuration of unknown type, a failure of the strategy, of
\* the fetcher or of the linter) is caught and turned into exactly one
\* setFailed call whose message starts with 'Commit linter failed', and no
\* later stage of the pipeline runs after the error.
C29_ErrorsBecomeOneSetFailed ==
  []ErrorsCaught /\ [][ErrorsCaughtStep]_vars

\* a run failed because loadConfig rejected in the Linter
C29_Witness ==
  /\ rpc = "failed"
  /\ lpc = "rejected"
  /\ setFailedCalls = 1
  /\ fetchCalls = 1

(***************************************************************************)
(* Properties of execute called twice.                                     *)
(***************************************************************************)
\* the second call has written package.json, after a first call that did
\* not fail at its write
WrittenAgain ==
  /\ execution = "second"
  /\ afterFirst.completed
  /\ manifestWrites > 0

\* C30 The manifest synthesis of DeclarativeStrategy is idempotent: for every
\* declarative configuration and every package.json to begin with (absent,
\* parsable or not), execute called twice in a row leaves the package.json
\* that one call leaves; and an identifier that is a local path (it starts
\* with '.' or is absolute) never becomes a key of `dependencies`.
C30_SynthesisIdempotent ==
  /\ (execution = "second" /\ afterFirst.completed) => packageJson = afterFirst.disk
  /\ \A k \in DOMAIN packageJson.data.dependencies :
       IsLocal(k) => k \in DOMAIN before.data.dependencies
  /\ \A i \in DOMAIN dependenciesToInstall :
       IsLocal(dependenciesToInstall[i]) =>
         dependenciesToInstall[i] \notin DOMAIN packageJsonData.dependencies

\* the second call wrote the manifest again for a configuration that names a
\* package and a local path, beside a package.json that did not parse at first
C30_Witness ==
  /\ WrittenAgain
  /\ pc = "resolved"
  /\ \E i \in DOMAIN dependenciesToInstall : IsLocal(dependenciesToInstall[i])
  /\ \E i \in DOMAIN dependenciesToInstall : ~IsLocal(dependenciesToInstall[i])
  /\ before = afterFirst.disk
  /\ packageJson.state = "json"

=============================================================================
